---- MODULE Spec2Model ----
(***************************************************************************)
(* poc-ses: bulk e-mail sending through Amazon SES with an in-process      *)
(* delivery status cache.                                                  *)
(*                                                                         *)
(*   src/internal/config/config.go   DeliveryService and its StatusCache   *)
(*   src/unnamed/part_001            SESService (senders, templates, send) *)
(*   src/internal/handlers/handlers.go   the gin handlers                  *)
(*                                                                         *)
(* The specifications share the variables:                                 *)
(*   Spec        the program: the HTTP handlers that touch the dispatch    *)
(*               path and the cache, each handler one action;              *)
(*   SpecCache   the DeliveryService cache API driven by an arbitrary      *)
(*               caller (TrackDelivery, UpdateDeliveryStatus, ...);        *)
(*   SpecReports, SpecClicks, SpecList, SpecCopies                         *)
(*               the same API under callers that report every kind of      *)
(*               status, click repeatedly, list three messages, and write  *)
(*               to what they were returned;                               *)
(*   SpecLock    the API taken statement by statement by concurrent        *)
(*               goroutines, with the RWMutex;                             *)
(*   SpecLockFair  SpecLock under the scheduling of the Go runtime;        *)
(*   SpecRequests  send, cancel and report requests served concurrently,   *)
(*               with their calls to SES and CloudWatch in flight;         *)
(*   SpecMetrics the totals and rates computed from CloudWatch datapoints; *)
(*   SpecBulk    reports over a cache that grows to 150 records.           *)
(*                                                                         *)
(* A handler reaches the cache in at most one critical section, taken      *)
(* after its last SES call returned, so in Spec a handler is one atomic    *)
(* step at the point of that critical section; SpecRequests takes the      *)
(* handlers call by call.  http shows the exchange from the handler's step *)
(* until its response is written.                                          *)
(***************************************************************************)
EXTENDS Integers, Sequences, FiniteSets, TLC

VARIABLES
    statuses,   \* StatusCache.statuses : map[string]DeliveryStatus
    now,        \* time.Now(), in abstract ticks
    call,       \* the last DeliveryService call: arguments and return value
    http,       \* the HTTP exchange being answered: request, SES state, SES calls, response
    hist,       \* per message id: the arguments of its last TrackDelivery and
                \* what the successful UpdateDeliveryStatus calls since then did
    held,       \* what a caller holds of the values GetDeliveryStatus and
                \* GetAllDeliveryStatus returned to it
    procs,      \* the goroutines inside a DeliveryService method: position and locals
    rw,         \* StatusCache.mutex : sync.RWMutex
    lin,        \* the status map the writing calls yield when applied one after
                \* another, each whole at its write inside the critical section
    metrics     \* the last response computed from CloudWatch totals

vars == <<statuses, now, call, http, hist, held, procs, rw, lin, metrics>>

\* What the handlers and the sequential cache API leave alone.
ext == <<held, procs, rw, lin, metrics>>

----------------------------------------------------------------------------
(* Bounds *)

MaxTime == 2
MaxClicks == 1
\* The clicks reported on one message under SpecClicks.
MaxClickReports == 3
\* The clock under SpecList.
MaxListTime == 3

(* Input domains *)

MsgIds == {"m1", "m2"}
Senders == {"a@x.com", "b@x.com"}
Subjects == {"s1", "s2"}
\* The (sender, subject) pairs a caller tracks a message with.
TrackInputs == {<<"a@x.com", "s1">>, <<"b@x.com", "s2">>}
\* The new statuses a caller reports: one per branch of UpdateDeliveryStatus
\* that changes more than status and description, and one that does not.
UpdateStatuses == {"DELIVERED", "CLICKED", "CANCELLED"}
Descriptions == {"d1"}

----------------------------------------------------------------------------
(* DeliveryStatus records: config.go *)

\* The zero value of time.Time: what an unset DeliveredAt/OpenedAt/LastClickAt holds.
ZeroTime == 0

SentDescription == "E-mail enviado e aguardando processamento"

\* NewDeliveryStatus with the delivery stamped at send time.
NewDeliveryStatusStamped(email, messageId, subject, t) ==
    [ ID                |-> <<messageId, t>>,
      FromEmail         |-> email,
      MessageID         |-> messageId,
      Status            |-> "SENT",
      StatusDescription |-> SentDescription,
      SentAt            |-> t,
      DeliveredAt       |-> t,
      OpenedAt          |-> ZeroTime,
      ClickCount        |-> 0,
      LastClickAt       |-> ZeroTime,
      Subject           |-> subject ]

\* The DeliveryStatus literal of TrackDelivery; the fields it does not name
\* keep their zero value.  ID is Sprintf("%s-%d", messageId, Unix time).
NewDeliveryStatus(email, messageId, subject, t) ==
    [ ID                |-> <<messageId, t>>,
      FromEmail         |-> email,
      MessageID         |-> messageId,
      Status            |-> "SENT",
      StatusDescription |-> SentDescription,
      SentAt            |-> t,
      DeliveredAt       |-> ZeroTime,
      OpenedAt          |-> ZeroTime,
      ClickCount        |-> 0,
      LastClickAt       |-> ZeroTime,
      Subject           |-> subject ]

\* m[k] = v on a Go map: insert or overwrite.
MapPut(m, k, v) == [x \in (DOMAIN m) \cup {k} |-> IF x = k THEN v ELSE m[x]]

\* TrackDelivery that keeps the click counter of a record it replaces.
TrackDeliveryKeepClicks(st, email, messageId, subject, t) ==
    LET fresh == [ ID                |-> <<messageId, t>>,
                   FromEmail         |-> email,
                   MessageID         |-> messageId,
                   Status            |-> "SENT",
                   StatusDescription |-> SentDescription,
                   SentAt            |-> t,
                   DeliveredAt       |-> ZeroTime,
                   OpenedAt          |-> ZeroTime,
                   ClickCount        |-> 0,
                   LastClickAt       |-> ZeroTime,
                   Subject           |-> subject ]
    IN  [x \in (DOMAIN st) \cup {messageId} |->
            IF x # messageId THEN st[x]
            ELSE IF messageId \in DOMAIN st
                 THEN [fresh EXCEPT !.ClickCount = st[messageId].ClickCount]
                 ELSE fresh]

\* TrackDelivery: the map after the call.
TrackDelivery(st, email, messageId, subject, t) ==
    MapPut(st, messageId, NewDeliveryStatus(email, messageId, subject, t))

\* UpdatedStatus in which a click also counts as the message being opened.
UpdatedStatusClickOpens(current, status, description, t) ==
    LET c1 == [current EXCEPT !.Status = status, !.StatusDescription = description]
    IN  IF status = "DELIVERED" THEN [c1 EXCEPT !.DeliveredAt = t]
        ELSE IF status = "OPENED" THEN [c1 EXCEPT !.OpenedAt = t]
        ELSE IF status = "CLICKED"
             THEN [c1 EXCEPT !.ClickCount = @ + 1, !.LastClickAt = t, !.OpenedAt = t]
        ELSE c1

\* UpdatedStatus that records that the message was clicked, not how often.
UpdatedStatusFirstClick(current, status, description, t) ==
    LET c1 == [current EXCEPT !.Status = status, !.StatusDescription = description]
    IN  IF status = "DELIVERED" THEN [c1 EXCEPT !.DeliveredAt = t]
        ELSE IF status = "OPENED" THEN [c1 EXCEPT !.OpenedAt = t]
        ELSE IF status = "CLICKED"
             THEN [c1 EXCEPT !.ClickCount = 1, !.LastClickAt = t]
        ELSE c1

\* UpdatedStatus that carries the click counter over only on a click.
UpdatedStatusDropClicks(current, status, description, t) ==
    LET c1 == [current EXCEPT !.Status = status, !.StatusDescription = description]
    IN  IF status = "DELIVERED" THEN [c1 EXCEPT !.DeliveredAt = t, !.ClickCount = 0]
        ELSE IF status = "OPENED" THEN [c1 EXCEPT !.OpenedAt = t, !.ClickCount = 0]
        ELSE IF status = "CLICKED"
             THEN [c1 EXCEPT !.ClickCount = @ + 1, !.LastClickAt = t]
        ELSE [c1 EXCEPT !.ClickCount = 0]

\* The record UpdateDeliveryStatus writes back for an existing record.
UpdatedStatus(current, status, description, t) ==
    LET c1 == [current EXCEPT !.Status = status, !.StatusDescription = description]
    IN  IF status = "DELIVERED" THEN [c1 EXCEPT !.DeliveredAt = t]
        ELSE IF status = "OPENED" THEN [c1 EXCEPT !.OpenedAt = t]
        ELSE IF status = "CLICKED"
             THEN [c1 EXCEPT !.ClickCount = @ + 1, !.LastClickAt = t]
        ELSE c1

\* UpdateDeliveryStatus that drops the record of a cancelled message.
UpdateDeliveryStatusEvict(st, messageId, status, description, t) ==
    IF messageId \notin DOMAIN st
    THEN [err |-> "mensagem não encontrada", statuses |-> st]
    ELSE IF status = "CANCELLED"
    THEN [err |-> "nil", statuses |-> [x \in (DOMAIN st) \ {messageId} |-> st[x]]]
    ELSE [err |-> "nil",
          statuses |-> [x \in DOMAIN st |->
                          IF x = messageId
                          THEN UpdatedStatus(st[messageId], status, description, t)
                          ELSE st[x]]]

\* UpdateDeliveryStatus that treats a cancelled message as final.
UpdateDeliveryStatusFinal(st, messageId, status, description, t) ==
    IF messageId \notin DOMAIN st
    THEN [err |-> "mensagem não encontrada", statuses |-> st]
    ELSE IF st[messageId].Status = "CANCELLED"
    THEN [err |-> "mensagem cancelada", statuses |-> st]
    ELSE [err |-> "nil",
          statuses |-> [x \in DOMAIN st |->
                          IF x = messageId
                          THEN UpdatedStatus(st[messageId], status, description, t)
                          ELSE st[x]]]

\* UpdateDeliveryStatus that writes the map entry before it tests exists.
UpdateDeliveryStatusUpsert(st, messageId, status, description, t) ==
    LET zero == [ ID |-> <<>>, FromEmail |-> "", MessageID |-> "", Status |-> "",
                  StatusDescription |-> "", SentAt |-> ZeroTime, DeliveredAt |-> ZeroTime,
                  OpenedAt |-> ZeroTime, ClickCount |-> 0, LastClickAt |-> ZeroTime,
                  Subject |-> "" ]
        current == IF messageId \in DOMAIN st THEN st[messageId] ELSE zero
        written == [x \in (DOMAIN st) \cup {messageId} |->
                      IF x = messageId
                      THEN [current EXCEPT !.Status = status,
                                           !.StatusDescription = description]
                      ELSE st[x]]
    IN  IF messageId \notin DOMAIN st
        THEN [err |-> "mensagem não encontrada", statuses |-> written]
        ELSE [err |-> "nil",
              statuses |-> [written EXCEPT ![messageId] =
                               IF status = "DELIVERED" THEN [@ EXCEPT !.DeliveredAt = t]
                               ELSE IF status = "OPENED" THEN [@ EXCEPT !.OpenedAt = t]
                               ELSE IF status = "CLICKED"
                                    THEN [@ EXCEPT !.ClickCount = @ + 1, !.LastClickAt = t]
                               ELSE @]]

\* UpdateDeliveryStatus: the returned error and the map after the call.
UpdateDeliveryStatus(st, messageId, status, description, t) ==
    IF messageId \notin DOMAIN st
    THEN [err |-> "mensagem não encontrada", statuses |-> st]
    ELSE [err |-> "nil",
          statuses |-> MapPut(st, messageId,
                              UpdatedStatus(st[messageId], status, description, t))]

\* GetDeliveryStatus: a pointer to a copy of the map value, or an error.
GetDeliveryStatus(st, messageId) ==
    IF messageId \notin DOMAIN st
    THEN [err |-> "mensagem não encontrada", status |-> <<>>]
    ELSE [err |-> "nil", status |-> <<st[messageId]>>]

RECURSIVE AnyOrder(_, _)
\* The values of the ids, each once, in every order.
AnyOrder(st, ids) ==
    IF ids = {} THEN {<<>>}
    ELSE UNION { {<<st[m]>> \o rest : rest \in AnyOrder(st, ids \ {m})} : m \in ids }

RECURSIVE SortSliceOldestFirst(_, _, _)
\* sort.Slice with the comparison turned around.
SortSliceOldestFirst(st, oldest, newest) ==
    IF oldest = newest
    THEN AnyOrder(st, {m \in DOMAIN st : st[m].SentAt = newest})
    ELSE LET mid == (oldest + newest) \div 2
         IN  { early \o late :
                 early \in SortSliceOldestFirst(st, oldest, mid),
                 late \in SortSliceOldestFirst(st, mid + 1, newest) }

\* GetAllDeliveryStatus with the comparison of the sort turned around.
GetAllDeliveryStatusOldestFirst(st) ==
    LET sent == {st[m].SentAt : m \in DOMAIN st}
    IN  IF sent = {} THEN {<<>>}
        ELSE SortSliceOldestFirst(st, CHOOSE t \in sent : \A u \in sent : t <= u,
                            CHOOSE t \in sent : \A u \in sent : t >= u)

RECURSIVE SortSlice(_, _, _)
\* sort.Slice by SentAt descending of the records sent from oldest to newest:
\* the records sent later before those sent earlier, and those sent at the
\* same time in whichever order.
SortSlice(st, oldest, newest) ==
    IF oldest = newest
    THEN AnyOrder(st, {m \in DOMAIN st : st[m].SentAt = newest})
    ELSE LET mid == (oldest + newest) \div 2
         IN  { late \o early :
                 late \in SortSlice(st, mid + 1, newest),
                 early \in SortSlice(st, oldest, mid) }

\* The slices GetAllDeliveryStatus can return: every map value once, sorted by
\* SentAt descending.  Map iteration order and sort.Slice leave the order of
\* records with equal SentAt open.
GetAllDeliveryStatus(st) ==
    LET sent == {st[m].SentAt : m \in DOMAIN st}
    IN  IF sent = {} THEN {<<>>}
        ELSE SortSlice(st, CHOOSE t \in sent : \A u \in sent : t <= u,
                 CHOOSE t \in sent : \A u \in sent : t >= u)

----------------------------------------------------------------------------
(* The cache API as actions *)

NoCall == [op |-> "none"]
NoHttp == [handler |-> "none"]

\* The goroutines that call into the DeliveryService concurrently.
Procs == {"g1", "g2", "g3"}
Idle == [pc |-> "idle", op |-> "none", messageId |-> "", status |-> "",
         description |-> "", rec |-> <<>>, err |-> "nil"]
\* The zero value of sync.RWMutex: unlocked.
RWUnlocked == [pending |-> "none", writer |-> "none", readers |-> {}]
NoMetrics == [kind |-> "none"]
\* A caller that holds no value of the cache.
NoRef == [cell |-> "none"]

Init ==
    /\ statuses = <<>>
    /\ now = 1
    /\ call = NoCall
    /\ http = NoHttp
    /\ hist = <<>>
    /\ held = NoRef
    /\ procs = [g \in Procs |-> Idle]
    /\ rw = RWUnlocked
    /\ lin = <<>>
    /\ metrics = NoMetrics

\* History kept beside a TrackDelivery / a successful UpdateDeliveryStatus.
HistTrack(h, email, messageId, subject) ==
    MapPut(h, messageId, [email |-> email, subject |-> subject, updated |-> FALSE,
                          clicks |-> 0, lastClick |-> ZeroTime])

\* clicks counts the successful CLICKED updates since the last TrackDelivery,
\* lastClick is the time of the last of them.
HistUpdate(h, messageId, status, t, err) ==
    IF err # "nil" THEN h
    ELSE IF status = "CLICKED"
         THEN [h EXCEPT ![messageId].updated = TRUE,
                        ![messageId].clicks = @ + 1,
                        ![messageId].lastClick = t]
    ELSE [h EXCEPT ![messageId].updated = TRUE]

\* The wall clock advances.
Tick ==
    /\ now < MaxTime
    /\ now' = now + 1
    /\ UNCHANGED <<ext, statuses, call, http, hist>>

CallTrackDelivery ==
    \E in \in TrackInputs, messageId \in MsgIds :
      LET email == in[1]
          subject == in[2]
      IN
        /\ statuses' = TrackDelivery(statuses, email, messageId, subject, now)
        /\ call' = [op |-> "TrackDelivery", email |-> email, messageId |-> messageId,
                    subject |-> subject, existed |-> messageId \in DOMAIN statuses]
        /\ hist' = HistTrack(hist, email, messageId, subject)
        /\ UNCHANGED <<ext, now, http>>

CallUpdateDeliveryStatus ==
    \E messageId \in MsgIds, status \in UpdateStatuses, description \in Descriptions :
        LET r == UpdateDeliveryStatus(statuses, messageId, status, description, now)
        IN  /\ (status = "CLICKED" /\ messageId \in DOMAIN statuses)
                  => statuses[messageId].ClickCount < MaxClicks
            /\ statuses' = r.statuses
            /\ call' = [op |-> "UpdateDeliveryStatus", messageId |-> messageId,
                        status |-> status, description |-> description, err |-> r.err]
            /\ hist' = HistUpdate(hist, messageId, status, now, r.err)
            /\ UNCHANGED <<ext, now, http>>

CallGetDeliveryStatus ==
    \E messageId \in MsgIds :
        LET r == GetDeliveryStatus(statuses, messageId)
        IN  /\ call' = [op |-> "GetDeliveryStatus", messageId |-> messageId,
                        err |-> r.err, status |-> r.status]
            /\ UNCHANGED <<ext, statuses, now, http, hist>>

CallGetAllDeliveryStatus ==
    \E result \in GetAllDeliveryStatus(statuses) :
        /\ call' = [op |-> "GetAllDeliveryStatus", result |-> result]
        /\ UNCHANGED <<ext, statuses, now, http, hist>>

NextCache ==
    \/ Tick
    \/ CallTrackDelivery
    \/ CallUpdateDeliveryStatus
    \/ CallGetDeliveryStatus
    \/ CallGetAllDeliveryStatus

SpecCache == Init /\ [][NextCache]_vars

----------------------------------------------------------------------------
(* The cache under status reports of every kind: SpecReports *)

\* The status argument of UpdateDeliveryStatus is a Go string: the values the
\* code compares it with or stores, the other values a delivery event can
\* carry, and one value that is none of them.
ReportStatuses ==
    {"SENT", "DELIVERED", "OPENED", "CLICKED", "BOUNCED", "COMPLAINT", "CANCELLED",
     "QUEUED"}

\* The message the reports are about; the other message is tracked and then
\* only stands by.
Reported == "m1"

\* UpdateDeliveryStatus called on the reported message with one of the given
\* statuses, as long as its click counter is below the given bound.
UpdateReported(sts, maxClicks) ==
    \E status \in sts, description \in Descriptions :
        LET r == UpdateDeliveryStatus(statuses, Reported, status, description, now)
        IN  /\ (status = "CLICKED" /\ Reported \in DOMAIN statuses)
                  => statuses[Reported].ClickCount < maxClicks
            /\ statuses' = r.statuses
            /\ call' = [op |-> "UpdateDeliveryStatus", messageId |-> Reported,
                        status |-> status, description |-> description, err |-> r.err]
            /\ hist' = HistUpdate(hist, Reported, status, now, r.err)
            /\ UNCHANGED <<ext, now, http>>

ReportUpdateDeliveryStatus == UpdateReported(ReportStatuses, MaxClicks)

NextReports ==
    \/ Tick
    \/ CallTrackDelivery
    \/ ReportUpdateDeliveryStatus

SpecReports == Init /\ [][NextReports]_vars

----------------------------------------------------------------------------
(* The cache under repeated clicks on one message: SpecClicks *)

\* Clicks, and one status that leaves the click counter alone.
ClickStatuses == {"CLICKED", "DELIVERED"}

ClickUpdateDeliveryStatus == UpdateReported(ClickStatuses, MaxClickReports)

NextClicks ==
    \/ Tick
    \/ CallTrackDelivery
    \/ ClickUpdateDeliveryStatus

SpecClicks == Init /\ [][NextClicks]_vars

----------------------------------------------------------------------------
(* Listing three messages sent at three times: SpecList *)

ListIds == {"m1", "m2", "m3"}

ListTick ==
    /\ now < MaxListTime
    /\ now' = now + 1
    /\ UNCHANGED <<ext, statuses, call, http, hist>>

ListTrackDelivery ==
    \E in \in TrackInputs, messageId \in ListIds :
        /\ statuses' = TrackDelivery(statuses, in[1], messageId, in[2], now)
        /\ call' = [op |-> "TrackDelivery", email |-> in[1], messageId |-> messageId,
                    subject |-> in[2], existed |-> messageId \in DOMAIN statuses]
        /\ hist' = HistTrack(hist, in[1], messageId, in[2])
        /\ UNCHANGED <<ext, now, http>>

NextList ==
    \/ ListTick
    \/ ListTrackDelivery
    \/ CallGetAllDeliveryStatus

SpecList == Init /\ [][NextList]_vars

----------------------------------------------------------------------------
(* What a caller holds of the cache: SpecCopies *)

(* A pointer or slice a method returns is modelled by the memory it refers   *)
(* to: cell "local" is memory allocated by the call, which carries its own   *)
(* value; cell "map" would be the entry of the status map under a key, whose *)
(* value is whatever the map holds.                                          *)

\* GetDeliveryStatus with a pointer into the status map as its result.
GetDeliveryStatusPtrShared(st, messageId) ==
    IF messageId \notin DOMAIN st
    THEN NoRef
    ELSE [cell |-> "map", kind |-> "ptr", key |-> messageId]

\* The pointer GetDeliveryStatus returns: &status, the address of the local
\* variable the map value was copied into; nil with the error.
GetDeliveryStatusPtr(st, messageId) ==
    IF messageId \notin DOMAIN st
    THEN NoRef
    ELSE [cell |-> "local", kind |-> "ptr", val |-> st[messageId]]

\* The slice GetAllDeliveryStatus returns: made by the call, the map values
\* appended to it by value.
GetAllDeliveryStatusSlice(result) ==
    [cell |-> "local", kind |-> "slice", val |-> result]

\* The value a caller reads through what it holds.
Deref(ref, st) ==
    IF ref.cell = "map" THEN st[ref.key]
    ELSE IF ref.cell = "local" THEN ref.val
    ELSE <<>>

\* The caller assigns the Status field through what it holds (of a slice,
\* the first element): the memory referred to changes.
StoreStatus(ref, st, v) ==
    IF ref.cell = "map"
    THEN [ref |-> ref, statuses |-> [st EXCEPT ![ref.key].Status = v]]
    ELSE IF ref.kind = "ptr"
    THEN [ref |-> [ref EXCEPT !.val.Status = v], statuses |-> st]
    ELSE [ref |-> [ref EXCEPT !.val[1].Status = v], statuses |-> st]

CopyGetDeliveryStatus ==
    \E messageId \in MsgIds :
        /\ held' = GetDeliveryStatusPtr(statuses, messageId)
        /\ call' = [op |-> "GetDeliveryStatus", messageId |-> messageId,
                    err |-> GetDeliveryStatus(statuses, messageId).err]
        /\ UNCHANGED <<statuses, now, http, hist, procs, rw, lin, metrics>>

CopyGetAllDeliveryStatus ==
    \E result \in GetAllDeliveryStatus(statuses) :
        /\ held' = GetAllDeliveryStatusSlice(result)
        /\ call' = [op |-> "GetAllDeliveryStatus"]
        /\ UNCHANGED <<statuses, now, http, hist, procs, rw, lin, metrics>>

\* The caller writes to the record it was given.
CallerWrite ==
    /\ held # NoRef
    /\ held.kind = "slice" => Len(held.val) > 0
    /\ LET w == StoreStatus(held, statuses, "EDITED")
       IN  /\ held' = w.ref
           /\ statuses' = w.statuses
    /\ call' = [op |-> "CallerWrite"]
    /\ UNCHANGED <<now, http, hist, procs, rw, lin, metrics>>

\* The statuses reported while a caller holds a value.
CopyStatuses == {"DELIVERED", "CANCELLED"}

CopyUpdateDeliveryStatus == UpdateReported(CopyStatuses, MaxClicks)

NextCopies ==
    \/ Tick
    \/ CallTrackDelivery
    \/ CopyUpdateDeliveryStatus
    \/ CopyGetDeliveryStatus
    \/ CopyGetAllDeliveryStatus
    \/ CallerWrite

SpecCopies == Init /\ [][NextCopies]_vars

----------------------------------------------------------------------------
(* The cache under concurrent callers: SpecLock *)

(* A goroutine is inside at most one DeliveryService method and takes it     *)
(* statement by statement: pc is what it does next, rec the method's local   *)
(* variable (status, current or result).  sync.RWMutex: Lock first announces *)
(* the writer, which keeps new readers out, then waits for the readers       *)
(* inside to leave; RLock waits while a writer is announced or inside.       *)

\* The message the concurrent calls are about.
LockIds == {"m1"}
LockTrackInput == <<"a@x.com", "s1">>
\* The statuses reported concurrently.
LockStatuses == {"CLICKED", "CANCELLED"}

\* UpdateDeliveryStatus under the read lock.
LockKindUpdateShared(op) ==
    IF op = "TrackDelivery" THEN "Lock" ELSE "RLock"

\* TrackDelivery under the read lock.
LockKindTrackShared(op) ==
    IF op = "UpdateDeliveryStatus" THEN "Lock" ELSE "RLock"

\* The lock a method takes: mutex.Lock in TrackDelivery and
\* UpdateDeliveryStatus, mutex.RLock in GetDeliveryStatus and
\* GetAllDeliveryStatus.
LockKind(op) ==
    IF op \in {"TrackDelivery", "UpdateDeliveryStatus"} THEN "Lock" ELSE "RLock"

LockPc(op) == IF LockKind(op) = "Lock" THEN "lock" ELSE "rlock"
UnlockPc(op) == IF LockKind(op) = "Lock" THEN "unlock" ELSE "runlock"
\* TrackDelivery has built its record before it takes the lock; the other
\* methods start with a read of the map.
AfterLockPc(op) == IF op = "TrackDelivery" THEN "write" ELSE "read"

\* The clicks on a message that were written or are on their way.
ClicksIssued(messageId) ==
    (IF messageId \in DOMAIN lin THEN lin[messageId].ClickCount ELSE 0)
    + Cardinality({g \in Procs :
                      /\ procs[g].op = "UpdateDeliveryStatus"
                      /\ procs[g].status = "CLICKED"
                      /\ procs[g].messageId = messageId
                      /\ procs[g].pc \in {"lock", "lockwait", "rlock", "read", "write"}})

\* TrackDelivery up to its Lock: the record is built, with time.Now().
EnterTrackDelivery(g) ==
    /\ procs[g].pc = "idle"
    /\ \E messageId \in LockIds :
         procs' = [procs EXCEPT ![g] =
                      [pc |-> LockPc("TrackDelivery"), op |-> "TrackDelivery",
                       messageId |-> messageId, status |-> "", description |-> "",
                       rec |-> <<NewDeliveryStatus(LockTrackInput[1], messageId,
                                                   LockTrackInput[2], now)>>,
                       err |-> "nil"]]
    /\ UNCHANGED <<statuses, now, call, http, hist, held, rw, lin, metrics>>

EnterUpdateDeliveryStatus(g) ==
    /\ procs[g].pc = "idle"
    /\ \E messageId \in LockIds, status \in LockStatuses, description \in Descriptions :
         /\ status = "CLICKED" => ClicksIssued(messageId) < MaxClickReports
         /\ procs' = [procs EXCEPT ![g] =
                        [pc |-> LockPc("UpdateDeliveryStatus"),
                         op |-> "UpdateDeliveryStatus", messageId |-> messageId,
                         status |-> status, description |-> description,
                         rec |-> <<>>, err |-> "nil"]]
    /\ UNCHANGED <<statuses, now, call, http, hist, held, rw, lin, metrics>>

EnterGetDeliveryStatus(g) ==
    /\ procs[g].pc = "idle"
    /\ \E messageId \in LockIds :
         procs' = [procs EXCEPT ![g] =
                      [pc |-> LockPc("GetDeliveryStatus"), op |-> "GetDeliveryStatus",
                       messageId |-> messageId, status |-> "", description |-> "",
                       rec |-> <<>>, err |-> "nil"]]
    /\ UNCHANGED <<statuses, now, call, http, hist, held, rw, lin, metrics>>

EnterGetAllDeliveryStatus(g) ==
    /\ procs[g].pc = "idle"
    /\ procs' = [procs EXCEPT ![g] =
                    [pc |-> LockPc("GetAllDeliveryStatus"), op |-> "GetAllDeliveryStatus",
                     messageId |-> "", status |-> "", description |-> "",
                     rec |-> <<>>, err |-> "nil"]]
    /\ UNCHANGED <<statuses, now, call, http, hist, held, rw, lin, metrics>>

\* mutex.Lock, first half: the writer is announced.
Lock(g) ==
    /\ procs[g].pc = "lock"
    /\ rw.pending = "none"
    /\ rw.writer = "none"
    /\ rw' = [rw EXCEPT !.pending = g]
    /\ procs' = [procs EXCEPT ![g].pc = "lockwait"]
    /\ UNCHANGED <<statuses, now, call, http, hist, held, lin, metrics>>

\* mutex.Lock, second half: the readers have left, Lock returns.
LockAcquired(g) ==
    /\ procs[g].pc = "lockwait"
    /\ rw.readers = {}
    /\ rw' = [rw EXCEPT !.pending = "none", !.writer = g]
    /\ procs' = [procs EXCEPT ![g].pc = AfterLockPc(procs[g].op)]
    /\ UNCHANGED <<statuses, now, call, http, hist, held, lin, metrics>>

\* mutex.RLock returns.
RLock(g) ==
    /\ procs[g].pc = "rlock"
    /\ rw.pending = "none"
    /\ rw.writer = "none"
    /\ rw' = [rw EXCEPT !.readers = @ \cup {g}]
    /\ procs' = [procs EXCEPT ![g].pc = AfterLockPc(procs[g].op)]
    /\ UNCHANGED <<statuses, now, call, http, hist, held, lin, metrics>>

\* UpdateDeliveryStatus with an Unlock at the end of the method in place of
\* the deferred one: the return for a missing record leaves the lock taken.
ReadCurrentNoDefer(g) ==
    /\ procs[g].pc = "read"
    /\ procs[g].op = "UpdateDeliveryStatus"
    /\ procs' = [procs EXCEPT ![g] =
                    IF procs[g].messageId \in DOMAIN statuses
                    THEN [@ EXCEPT !.pc = "write", !.rec = <<statuses[procs[g].messageId]>>]
                    ELSE Idle]
    /\ UNCHANGED <<statuses, now, call, http, hist, held, rw, lin, metrics>>

\* UpdateDeliveryStatus: current, exists := statuses[messageId], and the
\* return if there is no record.
ReadCurrent(g) ==
    /\ procs[g].pc = "read"
    /\ procs[g].op = "UpdateDeliveryStatus"
    /\ procs' = [procs EXCEPT ![g] =
                    IF procs[g].messageId \in DOMAIN statuses
                    THEN [@ EXCEPT !.pc = "write", !.rec = <<statuses[procs[g].messageId]>>]
                    ELSE [@ EXCEPT !.pc = UnlockPc(procs[g].op),
                                   !.err = "mensagem não encontrada"]]
    /\ UNCHANGED <<statuses, now, call, http, hist, held, rw, lin, metrics>>

\* GetDeliveryStatus: status, exists := statuses[messageId].
ReadStatus(g) ==
    /\ procs[g].pc = "read"
    /\ procs[g].op = "GetDeliveryStatus"
    /\ LET r == GetDeliveryStatus(statuses, procs[g].messageId)
       IN  procs' = [procs EXCEPT ![g] =
                        [@ EXCEPT !.pc = UnlockPc(procs[g].op),
                                  !.rec = r.status, !.err = r.err]]
    /\ UNCHANGED <<statuses, now, call, http, hist, held, rw, lin, metrics>>

\* GetAllDeliveryStatus: the loop over the map and the sort.
ReadAll(g) ==
    /\ procs[g].pc = "read"
    /\ procs[g].op = "GetAllDeliveryStatus"
    /\ \E result \in GetAllDeliveryStatus(statuses) :
         procs' = [procs EXCEPT ![g] =
                      [@ EXCEPT !.pc = UnlockPc(procs[g].op), !.rec = result]]
    /\ UNCHANGED <<statuses, now, call, http, hist, held, rw, lin, metrics>>

\* TrackDelivery: statuses[messageId] = status.
WriteTrack(g) ==
    /\ procs[g].pc = "write"
    /\ procs[g].op = "TrackDelivery"
    /\ LET status == procs[g].rec[1]
       IN  /\ statuses' = MapPut(statuses, procs[g].messageId, status)
           /\ lin' = MapPut(lin, procs[g].messageId, status)
           /\ hist' = HistTrack(hist, status.FromEmail, procs[g].messageId, status.Subject)
    /\ procs' = [procs EXCEPT ![g].pc = UnlockPc(procs[g].op)]
    /\ UNCHANGED <<now, call, http, held, rw, metrics>>

\* UpdateDeliveryStatus: current is changed, with time.Now(), and written
\* back: statuses[messageId] = current.
WriteUpdate(g) ==
    /\ procs[g].pc = "write"
    /\ procs[g].op = "UpdateDeliveryStatus"
    /\ LET current == UpdatedStatus(procs[g].rec[1], procs[g].status,
                                    procs[g].description, now)
       IN  /\ statuses' = MapPut(statuses, procs[g].messageId, current)
           /\ lin' = UpdateDeliveryStatus(lin, procs[g].messageId, procs[g].status,
                                          procs[g].description, now).statuses
           /\ hist' = HistUpdate(hist, procs[g].messageId, procs[g].status, now, "nil")
    /\ procs' = [procs EXCEPT ![g] = [@ EXCEPT !.pc = UnlockPc(procs[g].op), !.rec = <<>>]]
    /\ UNCHANGED <<now, call, http, held, rw, metrics>>

\* mutex.Unlock, and the method returns.
Unlock(g) ==
    /\ procs[g].pc = "unlock"
    /\ rw' = [rw EXCEPT !.writer = "none"]
    /\ procs' = [procs EXCEPT ![g] = Idle]
    /\ UNCHANGED <<statuses, now, call, http, hist, held, lin, metrics>>

\* mutex.RUnlock, and the method returns.
RUnlock(g) ==
    /\ procs[g].pc = "runlock"
    /\ rw' = [rw EXCEPT !.readers = @ \ {g}]
    /\ procs' = [procs EXCEPT ![g] = Idle]
    /\ UNCHANGED <<statuses, now, call, http, hist, held, lin, metrics>>

\* A statement of a method run by the goroutine.
LockStep(g) ==
    \/ EnterTrackDelivery(g)
    \/ EnterUpdateDeliveryStatus(g)
    \/ EnterGetDeliveryStatus(g)
    \/ EnterGetAllDeliveryStatus(g)
    \/ Lock(g)
    \/ LockAcquired(g)
    \/ RLock(g)
    \/ ReadCurrent(g)
    \/ ReadStatus(g)
    \/ ReadAll(g)
    \/ WriteTrack(g)
    \/ WriteUpdate(g)
    \/ Unlock(g)
    \/ RUnlock(g)

NextLock ==
    \/ Tick
    \/ \E g \in Procs : LockStep(g)

SpecLock == Init /\ [][NextLock]_vars

\* The statements of a method that wait for nothing, or, as the second half
\* of Lock, for readers that no new reader can join.
Proceed(g) ==
    \/ LockAcquired(g)
    \/ ReadCurrent(g)
    \/ ReadStatus(g)
    \/ ReadAll(g)
    \/ WriteTrack(g)
    \/ WriteUpdate(g)
    \/ Unlock(g)
    \/ RUnlock(g)

(* SpecLockFair: the methods called within one tick of the clock, the only  *)
(* status reported being the cancellation, under the scheduling of the Go   *)
(* runtime: a goroutine that can run does run, and a goroutine blocked in   *)
(* Lock or RLock is not passed over for ever: Unlock admits the readers     *)
(* that wait before the next writer, and a waiting writer is handed the     *)
(* mutex once it has waited long enough.                                    *)
NextLockFair ==
    \E g \in Procs : LockStep(g) /\ procs'[g].status # "CLICKED"

SpecLockFair ==
    /\ Init
    /\ [][NextLockFair]_vars
    /\ \A g \in Procs :
          WF_vars(Proceed(g)) /\ SF_vars(Lock(g)) /\ SF_vars(RLock(g))

----------------------------------------------------------------------------
(* Requests served concurrently: SpecRequests *)

(* A goroutine serves a request: first the calls of its handler to SES or    *)
(* CloudWatch, pc naming the call that is in flight, then the one            *)
(* DeliveryService method of the handler, statement by statement as in       *)
(* SpecLock, whose return ends the request.  The message is "m1": call is    *)
(* the last call about it that SES accepted.  SES accepts the cancellation   *)
(* of a message it has been sent.                                            *)

\* SendEmail with the cache locked from the start of the handler.
StartSendEmailLocked(g) ==
    /\ procs[g].pc = "idle"
    /\ call = NoCall
    /\ \A o \in Procs : procs[o].op \notin {"SendEmail", "TrackDelivery"}
    /\ rw = RWUnlocked
    /\ rw' = [rw EXCEPT !.writer = g]
    /\ procs' = [procs EXCEPT ![g] =
                    [Idle EXCEPT !.pc = "identity", !.op = "SendEmail", !.messageId = "m1"]]
    /\ UNCHANGED <<statuses, now, call, http, hist, held, lin, metrics>>

\* The SendEmail handler calls SESService.SendEmail, which asks SES for the
\* sender's identity first.  The message is sent once.
StartSendEmail(g) ==
    /\ procs[g].pc = "idle"
    /\ call = NoCall
    /\ \A o \in Procs : procs[o].op \notin {"SendEmail", "TrackDelivery"}
    /\ procs' = [procs EXCEPT ![g] =
                    [Idle EXCEPT !.pc = "identity", !.op = "SendEmail", !.messageId = "m1"]]
    /\ UNCHANGED <<statuses, now, call, http, hist, held, rw, lin, metrics>>

\* The SES call of SendEmail that is in flight returns: after the identity
\* the template, if the request names one, then the send; an error ends the
\* request, and after the send the handler calls TrackDelivery, which builds
\* its record.
SendCallReturns(g) ==
    /\ procs[g].op = "SendEmail"
    /\ \/ /\ procs[g].pc \in {"identity", "template", "send"}
          /\ procs' = [procs EXCEPT ![g] = Idle]
          /\ call' = call
       \/ /\ procs[g].pc = "identity"
          /\ \E next \in {"template", "send"} : procs' = [procs EXCEPT ![g].pc = next]
          /\ call' = call
       \/ /\ procs[g].pc = "template"
          /\ procs' = [procs EXCEPT ![g].pc = "send"]
          /\ call' = call
       \/ /\ procs[g].pc = "send"
          /\ call' = [op |-> "Send"]
          /\ procs' = [procs EXCEPT ![g] =
                          [Idle EXCEPT !.pc = LockPc("TrackDelivery"),
                                       !.op = "TrackDelivery",
                                       !.messageId = procs[g].messageId,
                                       !.rec = <<NewDeliveryStatus(LockTrackInput[1],
                                                                   procs[g].messageId,
                                                                   LockTrackInput[2], now)>>]]
    /\ UNCHANGED <<statuses, now, http, hist, held, rw, lin, metrics>>

\* The CancelEmail handler calls CancelScheduledEmail.
StartCancelEmail(g) ==
    /\ procs[g].pc = "idle"
    /\ procs' = [procs EXCEPT ![g] =
                    [Idle EXCEPT !.pc = "cancel", !.op = "CancelEmail", !.messageId = "m1"]]
    /\ UNCHANGED <<statuses, now, call, http, hist, held, rw, lin, metrics>>

\* CancelScheduledSending returns: an error ends the request, else the
\* handler calls UpdateDeliveryStatus.
CancelCallReturns(g) ==
    /\ procs[g].op = "CancelEmail"
    /\ procs[g].pc = "cancel"
    /\ \/ /\ procs' = [procs EXCEPT ![g] = Idle]
          /\ call' = call
       \/ /\ call # NoCall
          /\ call' = [op |-> "CancelScheduledSending"]
          /\ procs' = [procs EXCEPT ![g] =
                          [Idle EXCEPT !.pc = LockPc("UpdateDeliveryStatus"),
                                       !.op = "UpdateDeliveryStatus",
                                       !.messageId = procs[g].messageId,
                                       !.status = "CANCELLED",
                                       !.description = "Envio cancelado pelo usuário"]]
    /\ UNCHANGED <<statuses, now, http, hist, held, rw, lin, metrics>>

\* GetRealTimeReport queries CloudWatch.
StartGetRealTimeReport(g) ==
    /\ procs[g].pc = "idle"
    /\ procs' = [procs EXCEPT ![g] =
                    [Idle EXCEPT !.pc = "metric", !.op = "GetRealTimeReport"]]
    /\ UNCHANGED <<statuses, now, call, http, hist, held, rw, lin, metrics>>

\* The loop of queries is over: with an error, which ends the request, or
\* with the last answer, and GetRealTimeReport calls GetAllDeliveryStatus.
MetricCallsReturn(g) ==
    /\ procs[g].op = "GetRealTimeReport"
    /\ procs[g].pc = "metric"
    /\ \/ procs' = [procs EXCEPT ![g] = Idle]
       \/ procs' = [procs EXCEPT ![g] =
                       [Idle EXCEPT !.pc = LockPc("GetAllDeliveryStatus"),
                                    !.op = "GetAllDeliveryStatus"]]
    /\ UNCHANGED <<statuses, now, call, http, hist, held, rw, lin, metrics>>

NextRequests ==
    \E g \in Procs :
        \/ StartSendEmail(g)
        \/ SendCallReturns(g)
        \/ StartCancelEmail(g)
        \/ CancelCallReturns(g)
        \/ StartGetRealTimeReport(g)
        \/ MetricCallsReturn(g)
        \/ Lock(g)
        \/ LockAcquired(g)
        \/ RLock(g)
        \/ ReadCurrent(g)
        \/ ReadAll(g)
        \/ WriteTrack(g)
        \/ WriteUpdate(g)
        \/ Unlock(g)
        \/ RUnlock(g)

SpecRequests == Init /\ [][NextRequests]_vars

----------------------------------------------------------------------------
(* SESService: part_001 *)

TemplateIds == {"welcome-170000"}

\* An attachment's Content is base64 text; only whether it decodes matters.
Attachment(content) == [Filename |-> "f.txt", Content |-> content]

\* EmailRequest values that pass the binding (From, To and Subject present).
\* To, Cc and Bcc only travel to SES and are left out.
BoundRequests ==
    [ wellFormed  : {TRUE},
      From        : Senders,
      Subject     : Subjects,
      HtmlBody    : {"", "<p>hi</p>"},
      TextBody    : {"", "hi"},
      Attachments : {<<>>, <<Attachment("aGk=")>>, <<Attachment("%%%")>>},
      TemplateId  : {""} \cup TemplateIds ]

\* A body ShouldBindJSON rejects: nothing of it reaches the handler's code.
UnboundRequest ==
    [ wellFormed |-> FALSE, From |-> "", Subject |-> "", HtmlBody |-> "",
      TextBody |-> "", Attachments |-> <<>>, TemplateId |-> "" ]

Requests ==
    {r \in BoundRequests : <<r.From, r.Subject>> \in TrackInputs} \cup {UnboundRequest}

\* What SES holds while a request is served: the verification status of the
\* request's From identity ("absent": SES has no such identity) and the
\* templates that exist.
SesStates == [sender : {"absent", "Pending", "Success"}, templates : SUBSET TemplateIds]

\* The SES call that fails in transport if the request gets to issue it.
Faults == {"none", "GetIdentityVerificationAttributes", "GetTemplate", "Send", "CancelScheduledSending"}

\* error values: the chain of messages of fmt.Errorf("...: %w", err), outermost
\* first; nil is the empty chain.  err.Error() joins the chain with ": ".
Nil == <<>>
Wrap(msg, err) == <<msg>> \o err

\* strings.Contains(err.Error(), substr) for a substr that is one of the
\* program's own messages: SES's own error texts contain none of them.
Contains(err, substr) == \E i \in 1..Len(err) : err[i] = substr

\* A log entry for one SES API call and its outcome.
SesCall(op, res) == [op |-> op, res |-> res]

NoSender == [VerificationStatus |-> "nil"]

\* GetSender: (nil, err) when the call fails, (nil, nil) when SES knows no
\* such identity, else the sender with its verification status.
GetSender(email, ses, fault) ==
    IF fault = "GetIdentityVerificationAttributes"
    THEN [err    |-> Wrap("falha ao obter atributos de verificação", <<"ses: transport">>),
          sender |-> NoSender,
          calls  |-> <<SesCall("GetIdentityVerificationAttributes", "error")>>]
    ELSE [err    |-> Nil,
          sender |-> IF ses.sender = "absent" THEN NoSender
                     ELSE [VerificationStatus |-> ses.sender],
          calls  |-> <<SesCall("GetIdentityVerificationAttributes", "ok")>>]

\* GetTemplate: SES answers TemplateDoesNotExist for a missing template; that
\* and a transport failure both come back as err.
GetTemplate(id, ses, fault) ==
    IF fault = "GetTemplate"
    THEN [err   |-> Wrap("falha ao obter template", <<"ses: transport">>),
          calls |-> <<SesCall("GetTemplate", "error")>>]
    ELSE IF id \notin ses.templates
    THEN [err   |-> Wrap("falha ao obter template", <<"ses: TemplateDoesNotExist">>),
          calls |-> <<SesCall("GetTemplate", "TemplateDoesNotExist")>>]
    ELSE [err   |-> Nil,
          calls |-> <<SesCall("GetTemplate", "ok")>>]

\* "[Template: " + req.TemplateId + "]"
TemplateSubject(id) ==
    IF id = "welcome-170000" THEN "[Template: welcome-170000]" ELSE "[Template: ]"

NoResponse == [MessageID |-> "", Subject |-> "", StatusCode |-> 0, Status |-> ""]

EmailResponse(req, messageId, subject) ==
    [MessageID |-> messageId, From |-> req.From, Subject |-> subject,
     StatusCode |-> 200, Status |-> "success"]

\* One of the three send calls of SES: it fails in transport or returns the
\* message id SES assigned.
Send(op, fault, mid) ==
    IF fault = "Send" THEN [ok |-> FALSE, calls |-> <<SesCall(op, "error")>>]
    ELSE [ok |-> TRUE, calls |-> <<[op |-> op, res |-> "ok", MessageId |-> mid]>>]

\* sendEmailWithTemplate that drops the error of GetTemplate.
sendEmailWithTemplateUnchecked(req, ses, fault, mid) ==
    LET t == GetTemplate(req.TemplateId, ses, fault)
        s == Send("SendTemplatedEmail", fault, mid)
    IN  IF ~s.ok
        THEN [err |-> Wrap("falha ao enviar e-mail com template", <<"ses: transport">>),
              result |-> NoResponse, calls |-> t.calls \o s.calls]
        ELSE [err |-> Nil,
              result |-> EmailResponse(req, mid, TemplateSubject(req.TemplateId)),
              calls |-> t.calls \o s.calls]

\* sendEmailWithTemplate.  TemplateData was decoded from JSON by the binding,
\* so json.Marshal of it does not fail.
sendEmailWithTemplate(req, ses, fault, mid) ==
    LET t == GetTemplate(req.TemplateId, ses, fault)
        s == Send("SendTemplatedEmail", fault, mid)
    IN  IF t.err # Nil
        THEN [err |-> Wrap("template não encontrado", t.err),
              result |-> NoResponse, calls |-> t.calls]
        ELSE IF ~s.ok
        THEN [err |-> Wrap("falha ao enviar e-mail com template", <<"ses: transport">>),
              result |-> NoResponse, calls |-> t.calls \o s.calls]
        ELSE [err |-> Nil,
              result |-> EmailResponse(req, mid, TemplateSubject(req.TemplateId)),
              calls |-> t.calls \o s.calls]

\* base64.StdEncoding.DecodeString succeeds on the content.
Base64Decodes(content) == content = "aGk="

\* createRawEmailWithAttachments: fails on the first attachment whose content
\* is not base64; writing the message to a memory buffer does not fail.
createRawEmailWithAttachments(req) ==
    IF \E i \in 1..Len(req.Attachments) : ~Base64Decodes(req.Attachments[i].Content)
    THEN Wrap("falha ao decodificar anexo", <<"base64: illegal data">>)
    ELSE Nil

\* SendEmailVerified that tests the attachments before the template.
SendEmailVerifiedAttachmentsFirst(req, ses, fault, mid) ==
    IF Len(req.Attachments) > 0 /\ ~(req.HtmlBody = "" /\ req.TextBody = "")
    THEN LET rawErr == createRawEmailWithAttachments(req)
             s == Send("SendRawEmail", fault, mid)
         IN  IF rawErr # Nil
             THEN [err |-> Wrap("falha ao criar e-mail com anexos", rawErr),
                   result |-> NoResponse, calls |-> <<>>]
             ELSE IF ~s.ok
             THEN [err |-> Wrap("falha ao enviar e-mail com anexos", <<"ses: transport">>),
                   result |-> NoResponse, calls |-> s.calls]
             ELSE [err |-> Nil, result |-> EmailResponse(req, mid, req.Subject),
                   calls |-> s.calls]
    ELSE IF req.TemplateId # ""
    THEN sendEmailWithTemplate(req, ses, fault, mid)
    ELSE IF req.HtmlBody = "" /\ req.TextBody = ""
    THEN [err |-> <<"pelo menos um tipo de corpo (HTML ou texto) deve ser fornecido">>,
          result |-> NoResponse, calls |-> <<>>]
    ELSE LET s == Send("SendEmail", fault, mid)
         IN  IF ~s.ok
             THEN [err |-> Wrap("falha ao enviar e-mail", <<"ses: transport">>),
                   result |-> NoResponse, calls |-> s.calls]
             ELSE [err |-> Nil, result |-> EmailResponse(req, mid, req.Subject),
                   calls |-> s.calls]

\* SendEmail from the template test on (lines 662 to 781): the sender is
\* known to be verified.
SendEmailVerified(req, ses, fault, mid) ==
    IF req.TemplateId # ""
    THEN sendEmailWithTemplate(req, ses, fault, mid)
    ELSE IF req.HtmlBody = "" /\ req.TextBody = ""
    THEN [err |-> <<"pelo menos um tipo de corpo (HTML ou texto) deve ser fornecido">>,
          result |-> NoResponse, calls |-> <<>>]
    ELSE IF Len(req.Attachments) > 0
    THEN LET rawErr == createRawEmailWithAttachments(req)
             s == Send("SendRawEmail", fault, mid)
         IN  IF rawErr # Nil
             THEN [err |-> Wrap("falha ao criar e-mail com anexos", rawErr),
                   result |-> NoResponse, calls |-> <<>>]
             ELSE IF ~s.ok
             THEN [err |-> Wrap("falha ao enviar e-mail com anexos", <<"ses: transport">>),
                   result |-> NoResponse, calls |-> s.calls]
             ELSE [err |-> Nil, result |-> EmailResponse(req, mid, req.Subject),
                   calls |-> s.calls]
    ELSE LET s == Send("SendEmail", fault, mid)
         IN  IF ~s.ok
             THEN [err |-> Wrap("falha ao enviar e-mail", <<"ses: transport">>),
                   result |-> NoResponse, calls |-> s.calls]
             ELSE [err |-> Nil, result |-> EmailResponse(req, mid, req.Subject),
                   calls |-> s.calls]

\* SendEmail that takes the template path before it looks at the sender.
SendEmailTemplateFirst(req, ses, fault, mid) ==
    LET g == GetSender(req.From, ses, fault)
        r == SendEmailVerified(req, ses, fault, mid)
    IN  IF req.TemplateId # ""
        THEN r
        ELSE IF g.err # Nil
        THEN [err |-> Wrap("falha ao verificar remetente", g.err),
              result |-> NoResponse, calls |-> g.calls]
        ELSE IF g.sender = NoSender
        THEN [err |-> <<"remetente não encontrado">>,
              result |-> NoResponse, calls |-> g.calls]
        ELSE IF g.sender.VerificationStatus # "Success"
        THEN [err |-> <<"remetente não verificado", g.sender.VerificationStatus>>,
              result |-> NoResponse, calls |-> g.calls]
        ELSE [err |-> r.err, result |-> r.result, calls |-> g.calls \o r.calls]

\* SendEmail: the sender checks (lines 647 to 660), then the send.
SendEmail(req, ses, fault, mid) ==
    LET g == GetSender(req.From, ses, fault)
        r == SendEmailVerified(req, ses, fault, mid)
    IN  IF g.err # Nil
        THEN [err |-> Wrap("falha ao verificar remetente", g.err),
              result |-> NoResponse, calls |-> g.calls]
        ELSE IF g.sender = NoSender
        THEN [err |-> <<"remetente não encontrado">>,
              result |-> NoResponse, calls |-> g.calls]
        ELSE IF g.sender.VerificationStatus # "Success"
        THEN [err |-> <<"remetente não verificado", g.sender.VerificationStatus>>,
              result |-> NoResponse, calls |-> g.calls]
        ELSE [err |-> r.err, result |-> r.result, calls |-> g.calls \o r.calls]

\* CancelScheduledEmail
CancelScheduledEmail(messageId, fault) ==
    IF fault = "CancelScheduledSending"
    THEN [err |-> Wrap("falha ao cancelar envio de e-mail", <<"ses: transport">>),
          calls |-> <<SesCall("CancelScheduledSending", "error")>>]
    ELSE [err |-> Nil, calls |-> <<SesCall("CancelScheduledSending", "ok")>>]

----------------------------------------------------------------------------
(* The handlers: handlers.go *)

StatusOK == 200
StatusBadRequest == 400
StatusNotFound == 404
StatusInternalServerError == 500

\* BodyMissing with the template test inverted.
BodyMissingWithTemplate(req) == req.TemplateId # "" /\ req.HtmlBody = "" /\ req.TextBody = ""

\* The handler's own test before it calls the service (line 294).
BodyMissing(req) == req.TemplateId = "" /\ req.HtmlBody = "" /\ req.TextBody = ""

\* The status the SendEmail handler answers a service error with.
SendErrorStatus(err) ==
    IF Contains(err, "remetente não encontrado") THEN StatusNotFound
    ELSE IF Contains(err, "remetente não verificado") THEN StatusBadRequest
    ELSE IF Contains(err, "template não encontrado") THEN StatusNotFound
    ELSE StatusInternalServerError

\* TrackArgs that takes the subject of the response instead of the request's.
TrackArgsResultSubject(req, result) ==
    [email |-> req.From, messageId |-> result.MessageID, subject |-> result.Subject]

\* The arguments the SendEmail handler tracks a sent message with (line 318).
TrackArgs(req, result) ==
    [email |-> req.From, messageId |-> result.MessageID, subject |-> req.Subject]

\* The SendEmail handler up to its response: the status and error it answers,
\* the SES calls made on the way, and whether it tracks the message.
HandleSendEmail(req, ses, fault, mid) ==
    LET r == SendEmail(req, ses, fault, mid)
    IN  IF ~req.wellFormed
        THEN [status |-> StatusBadRequest, error |-> <<"Dados inválidos">>,
              calls |-> <<>>, result |-> NoResponse, track |-> FALSE]
        ELSE IF BodyMissing(req)
        THEN [status |-> StatusBadRequest,
              error |-> <<"Pelo menos um tipo de corpo (HTML ou texto) deve ser fornecido">>,
              calls |-> <<>>, result |-> NoResponse, track |-> FALSE]
        ELSE IF r.err # Nil
        THEN [status |-> SendErrorStatus(r.err),
              error |-> Wrap("Falha ao enviar e-mail", r.err),
              calls |-> r.calls, result |-> NoResponse, track |-> FALSE]
        ELSE [status |-> StatusOK, error |-> Nil,
              calls |-> r.calls, result |-> r.result, track |-> TRUE]

\* POST /emails/send.  SES assigns every message it accepts a new id.
HandlerSendEmail ==
    /\ http = NoHttp
    /\ \E req \in Requests, ses \in SesStates, fault \in Faults, mid \in MsgIds :
        LET h == HandleSendEmail(req, ses, fault, mid)
            a == TrackArgs(req, h.result)
        IN  /\ h.track => mid \notin DOMAIN statuses
            /\ http' = [handler |-> "SendEmail", req |-> req, ses |-> ses,
                        calls |-> h.calls, status |-> h.status, error |-> h.error,
                        result |-> h.result]
            /\ IF h.track
               THEN /\ statuses' = TrackDelivery(statuses, a.email, a.messageId, a.subject, now)
                    /\ call' = [op |-> "TrackDelivery", email |-> a.email,
                                messageId |-> a.messageId, subject |-> a.subject,
                                existed |-> a.messageId \in DOMAIN statuses]
                    /\ hist' = HistTrack(hist, a.email, a.messageId, a.subject)
               ELSE /\ statuses' = statuses
                    /\ call' = NoCall
                    /\ hist' = hist
            /\ UNCHANGED <<ext, now>>

\* DELETE /emails/cancel/:messageId.  The error of UpdateDeliveryStatus is dropped.
HandlerCancelEmail ==
    /\ http = NoHttp
    /\ \E messageId \in MsgIds, fault \in Faults :
        LET c == CancelScheduledEmail(messageId, fault)
            u == UpdateDeliveryStatus(statuses, messageId, "CANCELLED",
                                      "Envio cancelado pelo usuário", now)
        IN  /\ http' = [handler |-> "CancelEmail", messageId |-> messageId,
                        calls |-> c.calls,
                        status |-> IF c.err # Nil THEN StatusInternalServerError ELSE StatusOK,
                        error |-> IF c.err # Nil THEN Wrap("Falha ao cancelar e-mail", c.err)
                                  ELSE Nil]
            /\ IF c.err # Nil
               THEN /\ statuses' = statuses
                    /\ call' = NoCall
                    /\ hist' = hist
               ELSE /\ statuses' = u.statuses
                    /\ hist' = HistUpdate(hist, messageId, "CANCELLED", now, u.err)
                    /\ call' = [op |-> "UpdateDeliveryStatus", messageId |-> messageId,
                                status |-> "CANCELLED",
                                description |-> "Envio cancelado pelo usuário",
                                err |-> u.err]
            /\ UNCHANGED <<ext, now>>

\* GET /delivery/status/:messageId
HandlerGetDeliveryStatus ==
    /\ http = NoHttp
    /\ \E messageId \in MsgIds :
        LET r == GetDeliveryStatus(statuses, messageId)
        IN  /\ http' = [handler |-> "GetDeliveryStatus", messageId |-> messageId,
                        status |-> IF r.err # "nil" THEN StatusNotFound ELSE StatusOK,
                        body |-> r.status]
            /\ call' = [op |-> "GetDeliveryStatus", messageId |-> messageId,
                        err |-> r.err, status |-> r.status]
            /\ UNCHANGED <<ext, statuses, now, hist>>

\* GET /delivery/status
HandlerGetAllDeliveryStatus ==
    /\ http = NoHttp
    /\ \E result \in GetAllDeliveryStatus(statuses) :
        /\ http' = [handler |-> "GetAllDeliveryStatus", status |-> StatusOK, body |-> result]
        /\ call' = [op |-> "GetAllDeliveryStatus", result |-> result]
        /\ UNCHANGED <<ext, statuses, now, hist>>

\* c.JSON: the response is written and the exchange is over.
Respond ==
    /\ http # NoHttp
    /\ http' = NoHttp
    /\ call' = NoCall
    /\ UNCHANGED <<ext, statuses, now, hist>>

Next ==
    \/ Tick
    \/ Respond
    \/ HandlerSendEmail
    \/ HandlerCancelEmail
    \/ HandlerGetDeliveryStatus
    \/ HandlerGetAllDeliveryStatus

Spec == Init /\ [][Next]_vars

----------------------------------------------------------------------------
(* Metrics from CloudWatch: part_001 and config.go, SpecMetrics *)

MetricNames == {"Send", "Delivery", "Open", "Click", "Bounce", "Complaint"}

(* Instants are whole seconds since 1970-01-01T00:00:00Z and the server's    *)
(* zone is UTC, so that a time.Time is its instant.                          *)
Hour == 3600
Day == 86400

\* time.Now().AddDate(0, 0, -30): the days the default range reaches back.
DefaultDays == 30

\* The hours of a report asked for with hours <= 0.
DefaultHours == 24

\* The records a report carries at most.
DetailLimit == 100

\* 2024-03-31T12:00:00Z, the instant the requests of the model arrive at.
T0 == 19813 * Day + 12 * Hour

(* A query-string date is the sequence of its characters. *)
NoDate == <<>>

DateStrings ==
    { NoDate,
      <<"2", "0", "2", "4", "-", "0", "2", "-", "2", "9">>,
      <<"2", "0", "2", "4", "-", "0", "3", "-", "0", "1">>,
      <<"2", "0", "2", "4", "-", "0", "4", "-", "0", "1">>,
      <<"2", "0", "2", "4", "-", "0", "2", "-", "3", "0">>,
      <<"0", "1", "/", "0", "3", "/", "2", "0", "2", "4">> }

\* time.Parse("2006-01-02", s): four digits, two and two between hyphens that
\* name a day of the calendar give its midnight in UTC, anything else an error.
ParseDate(s) ==
    LET Digits == {"0", "1", "2", "3", "4", "5", "6", "7", "8", "9"}
        DigitValue(c) ==
            CASE c = "0" -> 0 [] c = "1" -> 1 [] c = "2" -> 2 [] c = "3" -> 3
              [] c = "4" -> 4 [] c = "5" -> 5 [] c = "6" -> 6 [] c = "7" -> 7
              [] c = "8" -> 8 [] c = "9" -> 9
        IsLeap(y) == (y % 4 = 0 /\ y % 100 # 0) \/ y % 400 = 0
        DaysIn(m, y) ==
            IF m = 2 THEN (IF IsLeap(y) THEN 29 ELSE 28)
            ELSE IF m \in {4, 6, 9, 11} THEN 30
            ELSE 31
        \* The days from 1970-01-01 to the day d of month m of year y.
        DaysFromCivil(y, m, d) ==
            LET yy == IF m <= 2 THEN y - 1 ELSE y
                era == yy \div 400
                yoe == yy - era * 400
                mp == IF m > 2 THEN m - 3 ELSE m + 9
                doy == (153 * mp + 2) \div 5 + d - 1
                doe == yoe * 365 + yoe \div 4 - yoe \div 100 + doy
            IN  era * 146097 + doe - 719468
    IN  IF /\ Len(s) = 10
           /\ s[5] = "-" /\ s[8] = "-"
           /\ \A i \in {1, 2, 3, 4, 6, 7, 9, 10} : s[i] \in Digits
        THEN LET y == DigitValue(s[1]) * 1000 + DigitValue(s[2]) * 100
                        + DigitValue(s[3]) * 10 + DigitValue(s[4])
                 m == DigitValue(s[6]) * 10 + DigitValue(s[7])
                 d == DigitValue(s[9]) * 10 + DigitValue(s[10])
             IN  IF m \in 1..12 /\ d >= 1 /\ d <= DaysIn(m, y)
                 THEN [err |-> Nil, t |-> DaysFromCivil(y, m, d) * Day]
                 ELSE [err |-> <<"parsing time: out of range">>, t |-> ZeroTime]
        ELSE [err |-> <<"parsing time: cannot parse">>, t |-> ZeroTime]

\* The two readings of time.Now() in parseDateRange, the one for the start
\* first: the clock does not run backwards between them.
Clocks == {<<T0, T0>>, <<T0, T0 + 1>>}

\* parseDateRange with the end taken as it was parsed, the midnight that
\* begins its day.
parseDateRangeMidnight(startDateStr, endDateStr, clock) ==
    LET start == ParseDate(startDateStr)
        end == ParseDate(endDateStr)
        startDate == IF startDateStr = NoDate THEN clock[1] - DefaultDays * Day
                     ELSE start.t
        endDate == IF endDateStr = NoDate THEN clock[2] ELSE end.t
        failed(err) == [err |-> err, startDate |-> ZeroTime, endDate |-> ZeroTime]
    IN  IF startDateStr # NoDate /\ start.err # Nil
        THEN failed(Wrap("formato de data inicial inválido (use YYYY-MM-DD)", start.err))
        ELSE IF endDateStr # NoDate /\ end.err # Nil
        THEN failed(Wrap("formato de data final inválido (use YYYY-MM-DD)", end.err))
        ELSE IF endDate < startDate
        THEN failed(<<"data final não pode ser anterior à data inicial">>)
        ELSE [err |-> Nil, startDate |-> startDate, endDate |-> endDate]

\* parseDateRange with one reading of the clock for both defaults.
parseDateRangeOneClock(startDateStr, endDateStr, clock) ==
    LET start == ParseDate(startDateStr)
        end == ParseDate(endDateStr)
        startDate == IF startDateStr = NoDate THEN clock[1] - DefaultDays * Day
                     ELSE start.t
        endDate == IF endDateStr = NoDate THEN clock[1] ELSE end.t + (Day - 1)
        failed(err) == [err |-> err, startDate |-> ZeroTime, endDate |-> ZeroTime]
    IN  IF startDateStr # NoDate /\ start.err # Nil
        THEN failed(Wrap("formato de data inicial inválido (use YYYY-MM-DD)", start.err))
        ELSE IF endDateStr # NoDate /\ end.err # Nil
        THEN failed(Wrap("formato de data final inválido (use YYYY-MM-DD)", end.err))
        ELSE IF endDate < startDate
        THEN failed(<<"data final não pode ser anterior à data inicial">>)
        ELSE [err |-> Nil, startDate |-> startDate, endDate |-> endDate]

\* parseDateRange: the start, or 30 days before now; the end extended to the
\* last second of its day, or now; an error for a string that does not parse
\* and for an end before the start.
parseDateRange(startDateStr, endDateStr, clock) ==
    LET start == ParseDate(startDateStr)
        end == ParseDate(endDateStr)
        startDate == IF startDateStr = NoDate THEN clock[1] - DefaultDays * Day
                     ELSE start.t
        endDate == IF endDateStr = NoDate THEN clock[2] ELSE end.t + (Day - 1)
        failed(err) == [err |-> err, startDate |-> ZeroTime, endDate |-> ZeroTime]
    IN  IF startDateStr # NoDate /\ start.err # Nil
        THEN failed(Wrap("formato de data inicial inválido (use YYYY-MM-DD)", start.err))
        ELSE IF endDateStr # NoDate /\ end.err # Nil
        THEN failed(Wrap("formato de data final inválido (use YYYY-MM-DD)", end.err))
        ELSE IF endDate < startDate
        THEN failed(<<"data final não pode ser anterior à data inicial">>)
        ELSE [err |-> Nil, startDate |-> startDate, endDate |-> endDate]

(* CloudWatch.  The datapoints of a metric are a function from their          *)
(* timestamps to their Sums, event counts.  A bucket exists once any of the  *)
(* six metrics has a datapoint of its key and a metric without one counts 0  *)
(* there, as does a datapoint of Sum 0: so the metrics of a request are      *)
(* given datapoints at the same timestamps.                                  *)
Counts == {0, 1}
CloudWatchData(stamps) == [MetricNames -> [stamps -> Counts]]

\* Timestamps of the two days before T0, for the queries by day.
DayStamps == {T0 - Day, T0 - 2 * Day}

\* Timestamps for a report: an hour and two hours before T0, and the hour of
\* day of the first on the day before.
HourStamps == {T0 - Hour, T0 - 2 * Hour, T0 - 25 * Hour}

\* One datapoint of one sent message at each of the full hours from T0 - n
\* hours to T0.
HourGrid(n) ==
    [m \in MetricNames |->
        [t \in {T0 - k * Hour : k \in 0..n} |-> IF m = "Send" THEN 1 ELSE 0]]

\* The orders in which the range over the map of metric names visits them.
IterationOrders ==
    { <<"Send", "Delivery", "Open", "Click", "Bounce", "Complaint">>,
      <<"Complaint", "Open", "Send", "Bounce", "Click", "Delivery">>,
      <<"Open", "Click", "Complaint", "Delivery", "Bounce", "Send">> }

\* The metrics whose query fails in transport.
MetricFaults == {{}, {"Open"}, {"Send", "Open"}}

\* CloudWatch as a request meets it.
QuietCloudWatch ==
    [order |-> <<"Send", "Delivery", "Open", "Click", "Bounce", "Complaint">>,
     failing |-> {}, data |-> [m \in MetricNames |-> <<>>]]

\* GetMetricStatistics: the datapoints of the metric from startTime to endTime.
GetMetricStatistics(cw, metricName, startTime, endTime) ==
    [t \in {s \in DOMAIN cw.data[metricName] : startTime <= s /\ s <= endTime}
        |-> cw.data[metricName][t]]

RECURSIVE SumOver(_, _)
\* sum += int64(*datapoint.Sum) over the datapoints of a metric.
SumOver(f, S) ==
    IF S = {} THEN 0
    ELSE LET x == CHOOSE y \in S : TRUE
         IN  f[x] + SumOver(f, S \ {x})

\* The key of an hourly bucket as the absolute hour, the hours since the epoch.
HourKeyAbsolute(t) == t \div Hour

\* The key of a datapoint's bucket: Timestamp.Format("2006-01-02"), the day,
\* and Timestamp.Hour(), the hour of the day.
DateKey(t) == t \div Day
HourKey(t) == (t \div Hour) % 24

RECURSIVE QueryLoopRetry(_, _, _, _, _, _)
\* The loop over the metric names going on to the next name after a query
\* that failed.
QueryLoopRetry(cw, i, startTime, endTime, period, queries) ==
    IF i > Len(cw.order) THEN [err |-> Nil, queries |-> queries]
    ELSE LET metricName == cw.order[i]
             input == [MetricName |-> metricName, StartTime |-> startTime,
                       EndTime |-> endTime, Period |-> period]
         IN  QueryLoopRetry(cw, i + 1, startTime, endTime, period,
                            Append(queries, input))

RECURSIVE QueryLoop(_, _, _, _, _, _)
\* The loop over the metric names: one GetMetricStatistics each, in the order
\* of the iteration, and the return at the first that fails.  queries is the
\* log of the inputs sent.
QueryLoop(cw, i, startTime, endTime, period, queries) ==
    IF i > Len(cw.order) THEN [err |-> Nil, queries |-> queries]
    ELSE LET metricName == cw.order[i]
             input == [MetricName |-> metricName, StartTime |-> startTime,
                       EndTime |-> endTime, Period |-> period]
         IN  IF metricName \in cw.failing
             THEN [err |-> Wrap("falha ao obter métrica " \o metricName,
                                <<"cloudwatch: transport">>),
                   queries |-> Append(queries, input)]
             ELSE QueryLoop(cw, i + 1, startTime, endTime, period,
                            Append(queries, input))

\* The sum of a metric keeping the Sum of one datapoint, the last by time:
\* sum = in place of sum +=.
MetricDataLast(cw, metricName, startTime, endTime) ==
    LET datapoints == GetMetricStatistics(cw, metricName, startTime, endTime)
    IN  IF DOMAIN datapoints = {} THEN 0
        ELSE datapoints[CHOOSE t \in DOMAIN datapoints :
                            \A u \in DOMAIN datapoints : u <= t]

\* metricData[metricName]: the sum over the datapoints of the metric.
MetricData(cw, metricName, startTime, endTime) ==
    LET datapoints == GetMetricStatistics(cw, metricName, startTime, endTime)
    IN  SumOver(datapoints, DOMAIN datapoints)

\* dailyMetrics[dateKey][metricName] and hourlyData[hour][metricName]: the sum
\* over the datapoints of the metric whose timestamp has the key, the day for
\* the period of a day and the hour of day for the period of an hour.
BucketData(cw, metricName, startTime, endTime, period, key) ==
    LET datapoints == GetMetricStatistics(cw, metricName, startTime, endTime)
        KeyOf(t) == IF period = Day THEN DateKey(t) ELSE HourKey(t)
    IN  SumOver(datapoints, {t \in DOMAIN datapoints : KeyOf(t) = key})

\* The keys of the buckets: of every datapoint of every metric.
BucketKeys(cw, startTime, endTime, period) ==
    LET KeyOf(t) == IF period = Day THEN DateKey(t) ELSE HourKey(t)
    IN  UNION { {KeyOf(t) : t \in DOMAIN GetMetricStatistics(cw, m, startTime, endTime)}
                : m \in MetricNames }

RECURSIVE GCD(_, _)
GCD(a, b) == IF b = 0 THEN a ELSE GCD(b, a % b)

(* float64 values: the finite ones as reduced fractions (rounding is left    *)
(* out), and the two results a division by zero has in IEEE 754 arithmetic,  *)
(* which Go's float64 division follows without a panic.                      *)
Finite(num, den) ==
    LET g == GCD(num, den)
    IN  [class |-> "finite", num |-> num \div g, den |-> den \div g]
NaN == [class |-> "NaN", num |-> 0, den |-> 0]
PosInf == [class |-> "+Inf", num |-> 1, den |-> 0]

\* The zero value a float64 variable is declared with.
ZeroFloat == Finite(0, 1)

\* float64(num) / float64(den) * 100, for counts that are not negative.
Rate(num, den) ==
    IF den = 0 THEN (IF num = 0 THEN NaN ELSE PosInf)
    ELSE Finite(num * 100, den)

\* The rates of the totals with all five under the one test of sent.
TotalRatesOneGuard(sent, delivered, opened, clicked, bounced, complaints) ==
    [ DeliveryRate  |-> IF sent > 0 THEN Rate(delivered, sent) ELSE ZeroFloat,
      BounceRate    |-> IF sent > 0 THEN Rate(bounced, sent) ELSE ZeroFloat,
      ComplaintRate |-> IF sent > 0 THEN Rate(complaints, sent) ELSE ZeroFloat,
      OpenRate      |-> IF sent > 0 THEN Rate(opened, delivered) ELSE ZeroFloat,
      ClickRate     |-> IF sent > 0 THEN Rate(clicked, delivered) ELSE ZeroFloat ]

\* The rates of the totals in GetMetrics and GetSenderMetrics.
TotalRates(sent, delivered, opened, clicked, bounced, complaints) ==
    [ DeliveryRate  |-> IF sent > 0 THEN Rate(delivered, sent) ELSE ZeroFloat,
      BounceRate    |-> IF sent > 0 THEN Rate(bounced, sent) ELSE ZeroFloat,
      ComplaintRate |-> IF sent > 0 THEN Rate(complaints, sent) ELSE ZeroFloat,
      OpenRate      |-> IF delivered > 0 THEN Rate(opened, delivered) ELSE ZeroFloat,
      ClickRate     |-> IF delivered > 0 THEN Rate(clicked, delivered) ELSE ZeroFloat ]

\* What a request answers with an error: nothing but the error; queries is
\* the log of the inputs sent to CloudWatch and CacheRead tells whether
\* GetAllDeliveryStatus was called.
MetricsError(err, queries) ==
    [kind |-> "error", err |-> err, queries |-> queries, CacheRead |-> FALSE]

\* GetMetrics: the totals over the range and their rates.
GetMetrics(startDateStr, endDateStr, clock, cw) ==
    LET range == parseDateRange(startDateStr, endDateStr, clock)
        loop == QueryLoop(cw, 1, range.startDate, range.endDate, Day, <<>>)
        total(metricName) == MetricData(cw, metricName, range.startDate, range.endDate)
    IN  IF range.err # Nil THEN MetricsError(range.err, <<>>)
        ELSE IF loop.err # Nil THEN MetricsError(loop.err, loop.queries)
        ELSE
          LET sent == total("Send")
              delivered == total("Delivery")
              opened == total("Open")
              clicked == total("Click")
              bounced == total("Bounce")
              complaints == total("Complaint")
              rates == TotalRates(sent, delivered, opened, clicked, bounced, complaints)
          IN  [ kind            |-> "MetricsResponse",
                StartDate       |-> range.startDate,
                EndDate         |-> range.endDate,
                TotalSent       |-> sent,
                TotalDelivered  |-> delivered,
                TotalOpened     |-> opened,
                TotalClicked    |-> clicked,
                TotalBounced    |-> bounced,
                TotalComplaints |-> complaints,
                DeliveryRate    |-> rates.DeliveryRate,
                OpenRate        |-> rates.OpenRate,
                ClickRate       |-> rates.ClickRate,
                BounceRate      |-> rates.BounceRate,
                ComplaintRate   |-> rates.ComplaintRate,
                queries         |-> loop.queries,
                CacheRead       |-> FALSE ]

\* GetSenderMetrics: one DailyMetrics per day that has a datapoint.
DailyMetrics(date, cw, startTime, endTime) ==
    LET daily(metricName) == BucketData(cw, metricName, startTime, endTime, Day, date)
        dailySent == daily("Send")
        dailyDelivered == daily("Delivery")
        dailyOpened == daily("Open")
        dailyClicked == daily("Click")
    IN  [ Date         |-> date,
          Sent         |-> dailySent,
          Delivered    |-> dailyDelivered,
          Opened       |-> dailyOpened,
          Clicked      |-> dailyClicked,
          Bounced      |-> daily("Bounce"),
          Complaints   |-> daily("Complaint"),
          DeliveryRate |-> IF dailySent > 0 THEN Rate(dailyDelivered, dailySent)
                           ELSE ZeroFloat,
          OpenRate     |-> IF dailyDelivered > 0 THEN Rate(dailyOpened, dailyDelivered)
                           ELSE ZeroFloat,
          ClickRate    |-> IF dailyDelivered > 0 THEN Rate(dailyClicked, dailyDelivered)
                           ELSE ZeroFloat ]

\* GetSenderMetrics: (nil, err) when the sender lookup, the range or a query
\* fails, (nil, nil) for an unknown sender, else the totals, their rates and
\* the daily metrics, which come in the order of a map iteration.
GetSenderMetrics(email, ses, sesFault, startDateStr, endDateStr, clock, cw) ==
    LET s == GetSender(email, ses, sesFault)
        range == parseDateRange(startDateStr, endDateStr, clock)
        loop == QueryLoop(cw, 1, range.startDate, range.endDate, Day, <<>>)
        total(metricName) == MetricData(cw, metricName, range.startDate, range.endDate)
    IN  IF s.err # Nil THEN MetricsError(s.err, <<>>)
        ELSE IF s.sender = NoSender
        THEN [kind |-> "nil", queries |-> <<>>, CacheRead |-> FALSE]
        ELSE IF range.err # Nil THEN MetricsError(range.err, <<>>)
        ELSE IF loop.err # Nil THEN MetricsError(loop.err, loop.queries)
        ELSE
          LET sent == total("Send")
              delivered == total("Delivery")
              opened == total("Open")
              clicked == total("Click")
              bounced == total("Bounce")
              complaints == total("Complaint")
              rates == TotalRates(sent, delivered, opened, clicked, bounced, complaints)
          IN  [ kind            |-> "SenderMetricsResponse",
                Email           |-> email,
                StartDate       |-> range.startDate,
                EndDate         |-> range.endDate,
                TotalSent       |-> sent,
                TotalDelivered  |-> delivered,
                TotalOpened     |-> opened,
                TotalClicked    |-> clicked,
                TotalBounced    |-> bounced,
                TotalComplaints |-> complaints,
                DeliveryRate    |-> rates.DeliveryRate,
                OpenRate        |-> rates.OpenRate,
                ClickRate       |-> rates.ClickRate,
                BounceRate      |-> rates.BounceRate,
                ComplaintRate   |-> rates.ComplaintRate,
                DailyStats      |->
                    { DailyMetrics(date, cw, range.startDate, range.endDate) :
                        date \in BucketKeys(cw, range.startDate, range.endDate, Day) },
                queries         |-> loop.queries,
                CacheRead       |-> FALSE ]

\* GetRealTimeReport: one HourlyStats per hour of day that has a datapoint.
HourlyStats(hour, cw, startTime, endTime) ==
    LET hourly(metricName) == BucketData(cw, metricName, startTime, endTime, Hour, hour)
        delivered == hourly("Delivery")
        opened == hourly("Open")
        clicked == hourly("Click")
    IN  [ Hour      |-> hour,
          Sent      |-> hourly("Send"),
          Delivered |-> delivered,
          Failed    |-> hourly("Bounce") + hourly("Complaint"),
          Opened    |-> opened,
          Clicked   |-> clicked,
          OpenRate  |-> IF delivered > 0 THEN Rate(opened, delivered) ELSE ZeroFloat,
          ClickRate |-> IF delivered > 0 THEN Rate(clicked, delivered) ELSE ZeroFloat ]

RECURSIVE SortedByHourDescending(_)
\* The sort with the comparison turned around.
SortedByHourDescending(hours) ==
    IF hours = {} THEN <<>>
    ELSE LET most == CHOOSE h \in hours : \A o \in hours : h >= o
         IN  <<most>> \o SortedByHourDescending(hours \ {most})

RECURSIVE SortedByHour(_)
\* sort.Slice of the hourly stats by ascending Hour: the hours are distinct,
\* being the keys of a map, so the order is the one of the hours.
SortedByHour(hours) ==
    IF hours = {} THEN <<>>
    ELSE LET least == CHOOSE h \in hours : \A o \in hours : h <= o
         IN  <<least>> \o SortedByHour(hours \ {least})

\* The slice cut to its last 100 records.
TruncatedTail(all) ==
    IF Len(all) > DetailLimit THEN SubSeq(all, Len(all) - DetailLimit + 1, Len(all))
    ELSE all

\* if len(statuses) > 100 { statuses = statuses[:100] }
Truncated(all) ==
    IF Len(all) > DetailLimit THEN SubSeq(all, 1, DetailLimit) ELSE all

\* GetRealTimeReport: the totals of the last hours, their rates, the hourly
\* stats in ascending hour and at most 100 records of the cache, given as the
\* slice GetAllDeliveryStatus returned; t is the reading of the clock.
GetRealTimeReport(hours, t, cw, all) ==
    LET h == IF hours <= 0 THEN DefaultHours ELSE hours
        endTime == t
        startTime == t - h * Hour
        loop == QueryLoop(cw, 1, startTime, endTime, Hour, <<>>)
        total(metricName) == MetricData(cw, metricName, startTime, endTime)
    IN  IF loop.err # Nil THEN MetricsError(loop.err, loop.queries)
        ELSE
          LET sent == total("Send")
              delivered == total("Delivery")
              opened == total("Open")
              clicked == total("Click")
              order == SortedByHour(BucketKeys(cw, startTime, endTime, Hour))
          IN  [ kind           |-> "DeliveryReport",
                Hours          |-> h,
                StartTime      |-> startTime,
                EndTime        |-> endTime,
                TotalSent      |-> sent,
                TotalDelivered |-> delivered,
                TotalFailed    |-> total("Bounce") + total("Complaint"),
                TotalOpened    |-> opened,
                TotalClicked   |-> clicked,
                DeliveryRate   |-> IF sent > 0 THEN Rate(delivered, sent) ELSE ZeroFloat,
                OpenRate       |-> IF delivered > 0 THEN Rate(opened, delivered) ELSE ZeroFloat,
                ClickRate      |-> IF delivered > 0 THEN Rate(clicked, delivered) ELSE ZeroFloat,
                DetailedStatus |-> Truncated(all),
                HourlyStats    |-> [i \in 1..Len(order) |->
                                       HourlyStats(order[i], cw, startTime, endTime)],
                queries        |-> loop.queries,
                CacheRead      |-> TRUE ]

\* CloudWatch answering every query, with datapoints at up to two of the
\* stamps.
Answering(stamps) ==
    UNION { [order: {QuietCloudWatch.order}, failing: {{}}, data: CloudWatchData(st)]
            : st \in {x \in SUBSET stamps : Cardinality(x) <= 2} }

\* CloudWatch failing some queries, for every order of the iteration.
Failing ==
    [order: IterationOrders, failing: MetricFaults \ {{}},
     data: {[m \in MetricNames |-> [t \in DayStamps \cup HourStamps |-> 1]]}]

\* The requests for metrics: every pair of dates at a quiet CloudWatch, and
\* the default range with every answer and every failure of CloudWatch.
MetricsRequests ==
    [startDate: DateStrings, endDate: DateStrings, clock: Clocks, cw: {QuietCloudWatch}]
      \cup [startDate: {NoDate}, endDate: {NoDate}, clock: {<<T0, T0>>},
            cw: Answering(DayStamps) \cup Failing]

\* The senders asked about: verified, unknown, and one whose lookup fails.
SenderLookups ==
    { [ses |-> [sender |-> "Success", templates |-> {}], fault |-> "none"],
      [ses |-> [sender |-> "absent", templates |-> {}], fault |-> "none"],
      [ses |-> [sender |-> "Success", templates |-> {}],
       fault |-> "GetIdentityVerificationAttributes"] }

\* The hours a report is asked for: not given, twelve, and two days.
ReportHours == {0, 12, 48}

\* The requests for a report: two days with every answer at the hour stamps,
\* every window with a datapoint at each full hour, and every failure.
ReportRequests ==
    [hours: {48}, cw: Answering(HourStamps) \cup Failing]
      \cup [hours: ReportHours,
            cw: {[QuietCloudWatch EXCEPT !.data = HourGrid(n)] : n \in 0..48}]

\* The actions keep the request they served in call.
CallGetMetrics ==
    /\ metrics = NoMetrics
    /\ \E r \in MetricsRequests :
         /\ metrics' = GetMetrics(r.startDate, r.endDate, r.clock, r.cw)
         /\ call' = [op |-> "GetMetrics", request |-> r]
    /\ UNCHANGED <<statuses, now, http, hist, held, procs, rw, lin>>

CallGetSenderMetrics ==
    /\ metrics = NoMetrics
    /\ \E s \in SenderLookups, r \in MetricsRequests :
         /\ metrics' = GetSenderMetrics("a@x.com", s.ses, s.fault,
                                        r.startDate, r.endDate, r.clock, r.cw)
         /\ call' = [op |-> "GetSenderMetrics", request |-> r]
    /\ UNCHANGED <<statuses, now, http, hist, held, procs, rw, lin>>

CallGetRealTimeReport ==
    /\ metrics = NoMetrics
    /\ \E r \in ReportRequests, all \in GetAllDeliveryStatus(statuses) :
         /\ metrics' = GetRealTimeReport(r.hours, T0, r.cw, all)
         /\ call' = [op |-> "GetRealTimeReport", request |-> r]
    /\ UNCHANGED <<statuses, now, http, hist, held, procs, rw, lin>>

\* The response is handed to the caller.
MetricsReturned ==
    /\ metrics # NoMetrics
    /\ metrics' = NoMetrics
    /\ call' = NoCall
    /\ UNCHANGED <<statuses, now, http, hist, held, procs, rw, lin>>

NextMetrics ==
    \/ CallGetMetrics
    \/ CallGetSenderMetrics
    \/ CallGetRealTimeReport
    \/ MetricsReturned

SpecMetrics == Init /\ [][NextMetrics]_vars

----------------------------------------------------------------------------
(* A cache that grows past the limit of a report: SpecBulk *)

\* The records the cache grows to.
MaxRecords == 150

\* The sizes of the cache at which the next message is sent within the same
\* second as the last one.
Bursts == {50, 100}

\* The clock moves on after a message was sent.
BulkTick ==
    /\ metrics = NoMetrics
    /\ \E m \in DOMAIN statuses : statuses[m].SentAt = now
    /\ now' = now + 1
    /\ UNCHANGED <<statuses, call, http, hist, held, procs, rw, lin, metrics>>

\* TrackDelivery of the next message: once a second, but for one burst of
\* two messages within a second.
BulkTrackDelivery ==
    /\ metrics = NoMetrics
    /\ Cardinality(DOMAIN statuses) < MaxRecords
    /\ \/ \A m \in DOMAIN statuses : statuses[m].SentAt # now
       \/ /\ Cardinality(DOMAIN statuses) \in Bursts
          /\ ~\E m, o \in DOMAIN statuses :
                m # o /\ statuses[m].SentAt = statuses[o].SentAt
    /\ statuses' = TrackDelivery(statuses, "a@x.com",
                                 "b" \o ToString(Cardinality(DOMAIN statuses) + 1), "s1", now)
    /\ UNCHANGED <<now, call, http, hist, held, procs, rw, lin, metrics>>

\* A report of the last twelve hours, while CloudWatch has no datapoint.
BulkGetRealTimeReport ==
    /\ metrics = NoMetrics
    /\ \E all \in GetAllDeliveryStatus(statuses) :
         metrics' = GetRealTimeReport(12, T0, QuietCloudWatch, all)
    /\ UNCHANGED <<statuses, now, call, http, hist, held, procs, rw, lin>>

NextBulk ==
    \/ BulkTick
    \/ BulkTrackDelivery
    \/ BulkGetRealTimeReport
    \/ MetricsReturned

SpecBulk == Init /\ [][NextBulk]_vars

----------------------------------------------------------------------------
(* Vocabulary of the properties *)

IsSendExchange == http.handler = "SendEmail"

AllEmpty(req) == req.HtmlBody = "" /\ req.TextBody = "" /\ req.TemplateId = ""

SendTransportOps == {"SendEmail", "SendRawEmail", "SendTemplatedEmail"}

IsSendOp(c) == c.op \in SendTransportOps

SendCalls(calls) == SelectSeq(calls, IsSendOp)

TransportFailed(calls) == \E i \in 1..Len(calls) : calls[i].res = "error"

ValidationMessages ==
    {"Dados inválidos", "Pelo menos um tipo de corpo (HTML ou texto) deve ser fornecido"}

\* What an error of the send exchange says went wrong.
ErrorKind(error) ==
    IF error = Nil THEN "none"
    ELSE IF error[1] \in ValidationMessages
            \/ Contains(error, "pelo menos um tipo de corpo (HTML ou texto) deve ser fornecido")
    THEN "MissingBody"
    ELSE IF Contains(error, "remetente não encontrado") THEN "SenderNotFound"
    ELSE IF Contains(error, "remetente não verificado") THEN "SenderUnverified"
    ELSE IF Contains(error, "template não encontrado") THEN "TemplateNotFound"
    ELSE "other"

SenderViolated(ses) == ses.sender # "Success"
TemplateViolated(req, ses) == req.TemplateId # "" /\ req.TemplateId \notin ses.templates
BodyViolated(req) == req.TemplateId = "" /\ req.HtmlBody = "" /\ req.TextBody = ""

SenderError(ses) == IF ses.sender = "absent" THEN "SenderNotFound" ELSE "SenderUnverified"

\* The earliest violated step in the order sender, template, body.
FirstViolatedSenderFirst(req, ses) ==
    IF SenderViolated(ses) THEN SenderError(ses)
    ELSE IF TemplateViolated(req, ses) THEN "TemplateNotFound"
    ELSE IF BodyViolated(req) THEN "MissingBody"
    ELSE "none"

\* The earliest violated step in the order body (no template), sender, template.
FirstViolatedBodyFirst(req, ses) ==
    IF BodyViolated(req) THEN "MissingBody"
    ELSE IF SenderViolated(ses) THEN SenderError(ses)
    ELSE IF TemplateViolated(req, ses) THEN "TemplateNotFound"
    ELSE "none"

SeveralViolated(req, ses) ==
    SenderViolated(ses) /\ (TemplateViolated(req, ses) \/ BodyViolated(req))

\* The send call the selection rule names for a request.
SelectedSendOp(req) ==
    IF req.TemplateId # "" THEN "SendTemplatedEmail"
    ELSE IF Len(req.Attachments) > 0 THEN "SendRawEmail"
    ELSE "SendEmail"

\* A record in state SENT as track(sender, messageId, subject) at time t leaves it.
IsFreshSent(rec, email, messageId, subject, t) ==
    /\ rec.FromEmail = email
    /\ rec.MessageID = messageId
    /\ rec.Subject = subject
    /\ rec.Status = "SENT"
    /\ rec.SentAt = t
    /\ rec.ClickCount = 0
    /\ rec.DeliveredAt = ZeroTime
    /\ rec.OpenedAt = ZeroTime
    /\ rec.LastClickAt = ZeroTime

OthersUntouched(messageId) ==
    \A o \in DOMAIN statuses \ {messageId} :
        o \in DOMAIN statuses' /\ statuses'[o] = statuses[o]

\* This step is the SendEmail handler serving a request.
SendStep == http = NoHttp /\ http'.handler = "SendEmail"

\* This step is a DeliveryService call of the given kind (the clock stands still).
CacheCallStep(op) == now' = now /\ call'.op = op

----------------------------------------------------------------------------
(* Dispatch: checked under Spec *)

\* C1: a send request whose HTML body, text body and template id are all
\* empty is answered 400 with a validation error whatever SES says about the
\* sender, and the step leaves the cache as it was.
C1_EmptyRequestRejected ==
    [][ (SendStep /\ AllEmpty(http'.req))
            => /\ http'.status = StatusBadRequest
               /\ http'.error # Nil
               /\ http'.error[1] \in ValidationMessages
               /\ statuses' = statuses
               /\ call' = NoCall ]_vars

C1_Witness ==
    /\ IsSendExchange
    /\ http.req.wellFormed
    /\ AllEmpty(http.req)
    /\ http.ses.sender = "Success"
    /\ http.status = StatusBadRequest
    /\ statuses # <<>>

\* C2 as stated: when a request violates several validation steps and no SES
\* call fails in transport, the error reported is that of the earliest
\* violated step in the order sender, template, body.
C2_SenderFirstOrder ==
    (IsSendExchange /\ http.req.wellFormed /\ ~TransportFailed(http.calls)
        /\ SeveralViolated(http.req, http.ses))
        => ErrorKind(http.error) = FirstViolatedSenderFirst(http.req, http.ses)

\* C2 amended: the order is missing body (no template and both bodies empty,
\* tested before the sender is looked up), then sender, then template; the
\* error reported for a request that violates a step is that of the earliest
\* violated step in that order.
C2_BodyFirstOrder ==
    (IsSendExchange /\ http.req.wellFormed /\ ~TransportFailed(http.calls)
        /\ FirstViolatedBodyFirst(http.req, http.ses) # "none")
        => ErrorKind(http.error) = FirstViolatedBodyFirst(http.req, http.ses)

C2_Witness ==
    /\ IsSendExchange
    /\ http.req.wellFormed
    /\ http.ses.sender = "absent"
    /\ TemplateViolated(http.req, http.ses)
    /\ ErrorKind(http.error) = "SenderNotFound"

\* C3: a successful dispatch made exactly one send call, the one the rule
\* template, else attachments, else simple selects; no dispatch makes two send
\* calls or a send call other than the selected one.
C3_OneSelectedSendCall ==
    IsSendExchange =>
        /\ http.status = StatusOK => Len(SendCalls(http.calls)) = 1
        /\ Len(SendCalls(http.calls)) <= 1
        /\ \A i \in 1..Len(http.calls) :
              IsSendOp(http.calls[i]) => http.calls[i].op = SelectedSendOp(http.req)

C3_Witness ==
    /\ IsSendExchange
    /\ http.status = StatusOK
    /\ http.req.TemplateId # ""
    /\ http.req.HtmlBody # ""
    /\ Len(http.req.Attachments) > 0
    /\ SendCalls(http.calls) = <<[op |-> "SendTemplatedEmail", res |-> "ok",
                                  MessageId |-> http.result.MessageID]>>

\* C4: a request that fails a precondition (missing body, unknown or
\* unverified sender, missing template) issues no send call, and a request
\* with both bodies empty and no template issues no SES call at all.
C4_ChecksBeforeSend ==
    (IsSendExchange /\ http.req.wellFormed) =>
        /\ FirstViolatedBodyFirst(http.req, http.ses) # "none"
              => /\ SendCalls(http.calls) = <<>>
                 /\ http.status # StatusOK
        /\ AllEmpty(http.req) => http.calls = <<>>

C4_Witness ==
    /\ IsSendExchange
    /\ http.ses.sender = "Success"
    /\ TemplateViolated(http.req, http.ses)
    /\ Len(http.calls) = 2
    /\ http.calls[2] = SesCall("GetTemplate", "TemplateDoesNotExist")
    /\ http.status # StatusOK

\* C5: a failed dispatch is answered 404 for sender not found and template
\* not found, 400 for an unverified sender and a missing body, and 500 for
\* every SES call that fails in transport, the template lookup included.
C5_ErrorClassification ==
    (IsSendExchange /\ http.req.wellFormed /\ http.status # StatusOK) =>
        IF TransportFailed(http.calls) THEN http.status = StatusInternalServerError
        ELSE /\ FirstViolatedBodyFirst(http.req, http.ses) \in {"SenderNotFound", "TemplateNotFound"}
                  => http.status = StatusNotFound
             /\ FirstViolatedBodyFirst(http.req, http.ses) \in {"SenderUnverified", "MissingBody"}
                  => http.status = StatusBadRequest

\* C6: the SendEmail handler writes the cache iff the dispatch succeeded: on
\* success its one cache call is TrackDelivery(from, messageId, subject) for
\* the message id the send call returned, which adds that record in state
\* SENT and touches no other; on failure the cache is unchanged.
C6_TrackIffSent ==
    [][ SendStep =>
          IF http'.status = StatusOK
          THEN LET mid == http'.result.MessageID
               IN  /\ Len(http'.calls) > 0
                   /\ http'.calls[Len(http'.calls)] =
                         [op |-> SelectedSendOp(http'.req), res |-> "ok", MessageId |-> mid]
                   /\ call' = [op |-> "TrackDelivery", email |-> http'.req.From,
                               messageId |-> mid, subject |-> http'.req.Subject,
                               existed |-> FALSE]
                   /\ DOMAIN statuses' = DOMAIN statuses \cup {mid}
                   /\ IsFreshSent(statuses'[mid], http'.req.From, mid, http'.req.Subject, now)
                   /\ OthersUntouched(mid)
          ELSE /\ statuses' = statuses
               /\ call' = NoCall ]_vars

C6_Witness ==
    /\ IsSendExchange
    /\ http.status = StatusOK
    /\ http.req.TemplateId # ""
    /\ call.op = "TrackDelivery"
    /\ call.messageId = http.result.MessageID
    /\ Cardinality(DOMAIN statuses) = 2
    /\ statuses[call.messageId].Subject = http.req.Subject

----------------------------------------------------------------------------
(* The delivery status cache: checked under SpecCache *)

\* C7: GetDeliveryStatus of a message id that was tracked and not updated
\* since returns a record with status SENT, click count 0, the sender and
\* subject given to TrackDelivery, and DeliveredAt, OpenedAt and LastClickAt
\* unset.
C7_TrackThenGet ==
    (call.op = "GetDeliveryStatus" /\ call.messageId \in DOMAIN hist
        /\ ~hist[call.messageId].updated)
        => /\ call.err = "nil"
           /\ Len(call.status) = 1
           /\ IsFreshSent(call.status[1], hist[call.messageId].email, call.messageId,
                          hist[call.messageId].subject, call.status[1].SentAt)
           /\ call.status[1].SentAt # ZeroTime

C7_Witness ==
    /\ call.op = "GetDeliveryStatus"
    /\ call.messageId \in DOMAIN hist
    /\ ~hist[call.messageId].updated
    /\ call.err = "nil"
    /\ \E o \in DOMAIN hist : o # call.messageId /\ hist[o].updated

\* C8: TrackDelivery on a message id that already has a record replaces it by
\* a fresh SENT record (click count 0, timestamps unset); the number of
\* records does not change and the other records are untouched.
C8_TrackOverwrites ==
    [][ \A m \in DOMAIN statuses :
          (CacheCallStep("TrackDelivery") /\ call'.messageId = m)
              => /\ DOMAIN statuses' = DOMAIN statuses
                 /\ IsFreshSent(statuses'[m], call'.email, m, call'.subject, now)
                 /\ OthersUntouched(m) ]_vars

C8_Witness ==
    /\ call.op = "TrackDelivery"
    /\ call.existed
    /\ statuses[call.messageId].ClickCount = 0
    /\ \E o \in DOMAIN statuses : o # call.messageId /\ statuses[o].ClickCount > 0

\* C9 as stated: no cache operation makes the click count of a message id
\* smaller than it was.
C9_ClicksNeverDecrease ==
    [][ \A m \in DOMAIN statuses :
          /\ m \in DOMAIN statuses'
          /\ statuses'[m].ClickCount >= statuses[m].ClickCount ]_vars

\* C9 amended: the click count of a message id never decreases over
\* UpdateDeliveryStatus, GetDeliveryStatus, GetAllDeliveryStatus and
\* TrackDelivery of other message ids; TrackDelivery of the id itself resets
\* it to 0.
C9_ClicksDecreaseOnlyOnRetrack ==
    [][ \A m \in DOMAIN statuses :
          /\ m \in DOMAIN statuses'
          /\ IF CacheCallStep("TrackDelivery") /\ call'.messageId = m
             THEN statuses'[m].ClickCount = 0
             ELSE statuses'[m].ClickCount >= statuses[m].ClickCount ]_vars

C9_Witness ==
    /\ call.op = "UpdateDeliveryStatus"
    /\ call.err = "nil"
    /\ call.status # "CLICKED"
    /\ statuses[call.messageId].ClickCount > 0

\* C10: UpdateDeliveryStatus of a message id without a record returns the
\* not-found error and leaves the cache unchanged.
C10_UpdateUnknownFails ==
    [][ (CacheCallStep("UpdateDeliveryStatus") /\ call'.messageId \notin DOMAIN statuses)
            => /\ call'.err = "mensagem não encontrada"
               /\ statuses' = statuses ]_vars

C10_Witness ==
    /\ call.op = "UpdateDeliveryStatus"
    /\ call.err = "mensagem não encontrada"
    /\ call.messageId \notin DOMAIN statuses
    /\ statuses # <<>>

\* C17: records are never deleted: no call removes a message id from the
\* cache, a failed UpdateDeliveryStatus and a cancellation included, and
\* GetDeliveryStatus of a message id that was ever tracked succeeds.
C17_NeverDeleted ==
    [][ /\ DOMAIN statuses \subseteq DOMAIN statuses'
        /\ (CacheCallStep("GetDeliveryStatus") /\ call'.messageId \in DOMAIN hist)
              => (call'.err = "nil" /\ call'.status = <<statuses[call'.messageId]>>) ]_vars

\* A cancelled message is still there, beside another one.
C17_Witness ==
    /\ call.op = "UpdateDeliveryStatus"
    /\ call.status = "CANCELLED"
    /\ call.err = "nil"
    /\ call.messageId \in DOMAIN statuses
    /\ statuses[call.messageId].Status = "CANCELLED"
    /\ Cardinality(DOMAIN statuses) = 2

----------------------------------------------------------------------------
(* Status updates of every kind: checked under SpecReports *)

\* C11: a successful UpdateDeliveryStatus(messageId, status, description)
\* sets the record's status and description to its arguments and changes
\* beside them exactly: DeliveredAt to the current time if status is
\* DELIVERED, OpenedAt to the current time if it is OPENED, ClickCount by +1
\* and LastClickAt to the current time if it is CLICKED, nothing for any other
\* status; the record's other fields and all other records stay as they were.
C11_UpdateFrame ==
    [][ (CacheCallStep("UpdateDeliveryStatus") /\ call'.err = "nil") =>
          LET m == call'.messageId
              s == call'.status
              old == statuses[m]
              new == statuses'[m]
          IN  /\ DOMAIN statuses' = DOMAIN statuses
              /\ OthersUntouched(m)
              /\ new.Status = s
              /\ new.StatusDescription = call'.description
              /\ new.ID = old.ID
              /\ new.FromEmail = old.FromEmail
              /\ new.MessageID = old.MessageID
              /\ new.SentAt = old.SentAt
              /\ new.Subject = old.Subject
              /\ new.DeliveredAt = IF s = "DELIVERED" THEN now ELSE old.DeliveredAt
              /\ new.OpenedAt = IF s = "OPENED" THEN now ELSE old.OpenedAt
              /\ new.ClickCount = IF s = "CLICKED" THEN old.ClickCount + 1
                                                   ELSE old.ClickCount
              /\ new.LastClickAt = IF s = "CLICKED" THEN now ELSE old.LastClickAt ]_vars

\* A click reported after the delivery and the opening were, at a later time,
\* beside a second record.
C11_Witness ==
    /\ call.op = "UpdateDeliveryStatus"
    /\ call.err = "nil"
    /\ call.status = "CLICKED"
    /\ Cardinality(DOMAIN statuses) = 2
    /\ statuses[call.messageId].ClickCount = 1
    /\ statuses[call.messageId].LastClickAt = now
    /\ statuses[call.messageId].DeliveredAt # ZeroTime
    /\ statuses[call.messageId].OpenedAt # ZeroTime
    /\ statuses[call.messageId].OpenedAt < now

\* C12: the click counter of a record is the number of successful CLICKED
\* updates of its message id since the last TrackDelivery of that id, whatever
\* other updates came in between, and LastClickAt is the time of the last of
\* them (unset if there was none).
C12_ClickCountIsClicks ==
    \A m \in DOMAIN statuses :
        /\ m \in DOMAIN hist
        /\ statuses[m].ClickCount = hist[m].clicks
        /\ statuses[m].LastClickAt = hist[m].lastClick

\* Three clicks, the last one before now, and another status reported since.
C12_Witness ==
    /\ call.op = "UpdateDeliveryStatus"
    /\ call.err = "nil"
    /\ call.status = "DELIVERED"
    /\ hist[call.messageId].clicks = 3
    /\ statuses[call.messageId].ClickCount = 3
    /\ statuses[call.messageId].LastClickAt < now

\* C13: UpdateDeliveryStatus validates no transition: on a message id that
\* has a record it succeeds whatever the record's current status and the new
\* status are, and it fails only on a message id that has no record.
C13_NoTransitionValidation ==
    [][ CacheCallStep("UpdateDeliveryStatus") =>
          (call'.err = "nil" <=> call'.messageId \in DOMAIN statuses) ]_vars

\* A click accepted on a record that was never delivered or opened.
C13_Witness ==
    /\ call.op = "UpdateDeliveryStatus"
    /\ call.err = "nil"
    /\ call.status = "CLICKED"
    /\ statuses[call.messageId].Status = "CLICKED"
    /\ statuses[call.messageId].StatusDescription # SentDescription
    /\ statuses[call.messageId].DeliveredAt = ZeroTime
    /\ statuses[call.messageId].OpenedAt = ZeroTime

\* The status values of the data model.
StatusValues ==
    {"SENT", "DELIVERED", "OPENED", "CLICKED", "BOUNCED", "COMPLAINT", "CANCELLED"}

\* C14: in every reachable state of the cache the status of every record is
\* one of SENT, DELIVERED, OPENED, CLICKED, BOUNCED, COMPLAINT and CANCELLED,
\* whatever status arguments UpdateDeliveryStatus was called with.
C14_StatusInValues ==
    \A m \in DOMAIN statuses : statuses[m].Status \in StatusValues

----------------------------------------------------------------------------
(* Copies: checked under SpecCopies *)

\* C15: GetDeliveryStatus and GetAllDeliveryStatus return copies: a caller's
\* write to a record it was given leaves the cache unchanged, a later
\* TrackDelivery or UpdateDeliveryStatus leaves the value the caller holds
\* unchanged, and the two read calls themselves leave the cache unchanged.
C15_ReturnsCopies ==
    [][ /\ call'.op \in {"CallerWrite", "GetDeliveryStatus", "GetAllDeliveryStatus"}
            => statuses' = statuses
        /\ call'.op \in {"TrackDelivery", "UpdateDeliveryStatus"}
            => Deref(held', statuses') = Deref(held, statuses) ]_vars

\* The caller holds an edited record of a message whose cache record was
\* delivered after the caller got it.
C15_Witness ==
    /\ held # NoRef
    /\ held.kind = "ptr"
    /\ Deref(held, statuses).Status = "EDITED"
    /\ Deref(held, statuses).DeliveredAt = ZeroTime
    /\ call.op = "UpdateDeliveryStatus"
    /\ call.err = "nil"
    /\ statuses[Deref(held, statuses).MessageID].Status = "DELIVERED"
    /\ statuses[Deref(held, statuses).MessageID].DeliveredAt # ZeroTime
    /\ \A m \in DOMAIN statuses : statuses[m].Status # "EDITED"

----------------------------------------------------------------------------
(* Listing: checked under SpecList *)

\* C16: GetAllDeliveryStatus returns every record of the cache exactly once,
\* as many as there are tracked message ids, ordered by SentAt descending:
\* of two adjacent results the first was sent no earlier than the second.
C16_ListAllSortedComplete ==
    call.op = "GetAllDeliveryStatus" =>
        /\ Len(call.result) = Cardinality(DOMAIN statuses)
        /\ \A m \in DOMAIN statuses :
              Cardinality({i \in 1..Len(call.result) : call.result[i] = statuses[m]}) = 1
        /\ \A i \in 1..(Len(call.result) - 1) :
              call.result[i].SentAt >= call.result[i + 1].SentAt

\* Three records sent at times 1 < 2 < 3 come back as [3, 2, 1].
C16_Witness ==
    /\ call.op = "GetAllDeliveryStatus"
    /\ Len(call.result) = 3
    /\ call.result[1].SentAt = 3
    /\ call.result[2].SentAt = 2
    /\ call.result[3].SentAt = 1
    /\ statuses["m1"].SentAt = 1
    /\ statuses["m3"].SentAt = 2

----------------------------------------------------------------------------
(* Concurrent callers: checked under SpecLock *)

WriterOps == {"TrackDelivery", "UpdateDeliveryStatus"}

\* The goroutine is between the return of its Lock or RLock and its Unlock
\* or RUnlock.
InCriticalSection(g) == procs[g].pc \in {"read", "write", "unlock", "runlock"}

\* No TrackDelivery or UpdateDeliveryStatus is inside its critical section
\* together with any other call.
WritersAlone ==
    \A g1 \in Procs :
        (InCriticalSection(g1) /\ procs[g1].op \in WriterOps)
            => \A g2 \in Procs \ {g1} : ~InCriticalSection(g2)

\* C18: readers-writer discipline: a TrackDelivery or UpdateDeliveryStatus
\* is never inside its critical section while any other call is inside its
\* own, and every read and write of the status map is done by a goroutine
\* that holds the lock of its method: the write lock for TrackDelivery and
\* UpdateDeliveryStatus, the read lock for the two read calls.
C18_ReadersWriter ==
    [][ /\ WritersAlone'
        /\ \A g \in Procs :
             (procs[g].pc \in {"read", "write"} /\ procs'[g] # procs[g])
                 => IF procs[g].op \in WriterOps
                    THEN rw.writer = g
                    ELSE g \in rw.readers /\ rw.writer = "none" ]_vars

\* Two read calls are inside at the same time while a writer waits for them.
C18_Witness ==
    \E g1, g2, g3 \in Procs :
        /\ g1 # g2
        /\ procs[g1].op = "GetDeliveryStatus" /\ procs[g1].pc = "runlock"
        /\ procs[g1].err = "nil"
        /\ procs[g2].op = "GetAllDeliveryStatus" /\ procs[g2].pc = "read"
        /\ procs[g3].op = "UpdateDeliveryStatus" /\ procs[g3].pc = "lockwait"
        /\ rw.readers = {g1, g2}

\* C19: concurrent UpdateDeliveryStatus calls are linearized by the lock: the
\* status map is always the one obtained by applying the writing calls one
\* after another in the order of their critical sections, so no update is
\* lost: status and description are the last writer's and the click counter
\* is the number of CLICKED calls that wrote since the record was tracked.
C19_UpdatesLinearized ==
    /\ statuses = lin
    /\ \A m \in DOMAIN statuses :
         /\ m \in DOMAIN hist
         /\ statuses[m].ClickCount = hist[m].clicks
         /\ statuses[m].LastClickAt = hist[m].lastClick

\* The third of three clicks has been written while two more updates of the
\* message wait for the lock.
C19_Witness ==
    \E g1, g2, g3 \in Procs :
        /\ g1 # g2 /\ g1 # g3 /\ g2 # g3
        /\ procs[g1].op = "UpdateDeliveryStatus" /\ procs[g1].status = "CLICKED"
        /\ procs[g1].pc = "unlock" /\ procs[g1].err = "nil"
        /\ procs[g2].op = "UpdateDeliveryStatus" /\ procs[g2].pc = "lock"
        /\ procs[g3].op = "UpdateDeliveryStatus" /\ procs[g3].pc = "lock"
        /\ procs[g2].messageId = procs[g1].messageId
        /\ procs[g3].messageId = procs[g1].messageId
        /\ statuses[procs[g1].messageId].ClickCount = 3
        /\ statuses[procs[g1].messageId].Status = "CLICKED"

----------------------------------------------------------------------------
(* Rates: checked under SpecMetrics *)

\* The rates by the sent total are 0 if it is 0, the rates by the delivered
\* total are 0 if it is 0, and each rate is a finite number.
RatesGuarded(sent, delivered, bySent, byDelivered) ==
    /\ \A r \in bySent \cup byDelivered : r.class = "finite"
    /\ sent = 0 => \A r \in bySent : r = ZeroFloat
    /\ delivered = 0 => \A r \in byDelivered : r = ZeroFloat

\* C20: every derived rate is exactly 0 when its denominator total is 0, the
\* delivery, bounce and complaint rates for sent = 0 and the open and click
\* rates for delivered = 0, whatever the numerator is, in the overall
\* metrics, the per-sender metrics, the daily stats, the hourly stats and the
\* totals of the real-time report, and no rate is the result of a division
\* by zero.
C20_ZeroDenominatorZeroRate ==
    /\ metrics.kind \in {"MetricsResponse", "SenderMetricsResponse"} =>
         RatesGuarded(metrics.TotalSent, metrics.TotalDelivered,
                      {metrics.DeliveryRate, metrics.BounceRate, metrics.ComplaintRate},
                      {metrics.OpenRate, metrics.ClickRate})
    /\ metrics.kind = "SenderMetricsResponse" =>
         \A d \in metrics.DailyStats :
             RatesGuarded(d.Sent, d.Delivered, {d.DeliveryRate}, {d.OpenRate, d.ClickRate})
    /\ metrics.kind = "DeliveryReport" =>
         /\ RatesGuarded(metrics.TotalSent, metrics.TotalDelivered,
                         {metrics.DeliveryRate}, {metrics.OpenRate, metrics.ClickRate})
         /\ \A h \in DOMAIN metrics.HourlyStats :
              RatesGuarded(0, metrics.HourlyStats[h].Delivered, {},
                           {metrics.HourlyStats[h].OpenRate,
                            metrics.HourlyStats[h].ClickRate})

\* Per-sender metrics with mail sent but none delivered and yet opened, and a
\* day on which nothing was sent or delivered and yet a click was counted.
C20_Witness ==
    /\ metrics.kind = "SenderMetricsResponse"
    /\ metrics.TotalSent > 0
    /\ metrics.TotalDelivered = 0
    /\ metrics.TotalOpened > 0
    /\ metrics.OpenRate = ZeroFloat
    /\ metrics.BounceRate # ZeroFloat
    /\ \E d \in metrics.DailyStats :
         d.Sent = 0 /\ d.Clicked > 0 /\ d.ClickRate = ZeroFloat /\ d.DeliveryRate = ZeroFloat

----------------------------------------------------------------------------
(* Date ranges and metric queries: checked under SpecMetrics *)

RangeOps == {"GetMetrics", "GetSenderMetrics"}

\* The request that was served asked for a range of dates and got as far as
\* the range: any GetMetrics, and a GetSenderMetrics whose sender was found.
RangeRequested ==
    /\ call.op \in RangeOps
    /\ metrics.kind \in {"error", "MetricsResponse", "SenderMetricsResponse"}
    /\ ~(metrics.kind = "error" /\ Contains(metrics.err, "ses: transport"))

\* The string is given and names no day of the calendar.
NotADate(s) == s # NoDate /\ ParseDate(s).err # Nil

\* The start and the end the strings and the two readings of the clock stand
\* for, the end of a given day being its last second.
StartOf(r) ==
    IF r.startDate = NoDate THEN r.clock[1] - DefaultDays * Day
    ELSE ParseDate(r.startDate).t
EndOf(r) ==
    IF r.endDate = NoDate THEN r.clock[2]
    ELSE ParseDate(r.endDate).t + Day - 1

RangeRefused(r) ==
    NotADate(r.startDate) \/ NotADate(r.endDate) \/ EndOf(r) < StartOf(r)

\* C21: a request with a date range fails on the range if and only if a given
\* start or end string is not a calendar date or the end, extended to the last
\* second of its day when it is given, is before the start; a request that
\* fails on the range has issued no metric query, and one that passes queries
\* the range from that start to that end.
C21_RangeRefusedIff ==
    RangeRequested =>
      LET r == call.request
      IN  /\ RangeRefused(r) <=> (metrics.kind = "error" /\ metrics.queries = <<>>)
          /\ ~RangeRefused(r) =>
                /\ metrics.queries # <<>>
                /\ \A i \in DOMAIN metrics.queries :
                      /\ metrics.queries[i].StartTime = StartOf(r)
                      /\ metrics.queries[i].EndTime = EndOf(r)

\* A range of one day, start and end the same date, was accepted and queried
\* from its midnight to its last second.
C21_Witness ==
    /\ call.op = "GetMetrics"
    /\ call.request.startDate # NoDate
    /\ call.request.startDate = call.request.endDate
    /\ metrics.kind = "MetricsResponse"
    /\ Len(metrics.queries) = 6
    /\ metrics.queries[1].EndTime = metrics.queries[1].StartTime + Day - 1

\* A start after the end was refused, a date that is no day of the calendar
\* was refused, and nothing was queried.
C21_WitnessRefused ==
    /\ call.op = "GetSenderMetrics"
    /\ metrics.kind = "error"
    /\ metrics.queries = <<>>
    /\ \/ Contains(metrics.err, "data final não pode ser anterior à data inicial")
       \/ Contains(metrics.err, "parsing time: out of range")

\* The window the queries of the request were sent with: the same for all.
QueriedWindow(start, end) ==
    /\ metrics.queries # <<>>
    /\ \A i \in DOMAIN metrics.queries :
          metrics.queries[i].StartTime = start /\ metrics.queries[i].EndTime = end

\* C22 as stated: with neither date given the range always passes, and its
\* end is the current time and its start exactly 30 days before its end.
C22_DefaultWindowExact ==
    (RangeRequested /\ call.request.startDate = NoDate /\ call.request.endDate = NoDate) =>
        /\ metrics.queries # <<>>
        /\ \A i \in DOMAIN metrics.queries :
              /\ metrics.queries[i].EndTime \in {call.request.clock[1], call.request.clock[2]}
              /\ metrics.queries[i].StartTime
                    = metrics.queries[i].EndTime - DefaultDays * Day

\* C22 amended: with neither date given the range always passes, its start is
\* 30 days before the reading of the clock taken for the start and its end is
\* the reading taken after it for the end, so the window is 30 days long or
\* longer by the time between the readings; with one date given the other
\* takes its default from its own reading, and the request is refused exactly
\* when the end of that pair is before its start.
C22_DefaultsPerReading ==
    RangeRequested =>
      LET r == call.request
          defaultStart == r.clock[1] - DefaultDays * Day
          defaultEnd == r.clock[2]
      IN  /\ (r.startDate = NoDate /\ r.endDate = NoDate) =>
                /\ QueriedWindow(defaultStart, defaultEnd)
                /\ defaultEnd - defaultStart >= DefaultDays * Day
          /\ (r.startDate = NoDate /\ r.endDate # NoDate /\ ~NotADate(r.endDate)) =>
                IF EndOf(r) < defaultStart
                THEN metrics.kind = "error" /\ metrics.queries = <<>>
                ELSE QueriedWindow(defaultStart, EndOf(r))
          /\ (r.startDate # NoDate /\ r.endDate = NoDate /\ ~NotADate(r.startDate)) =>
                IF defaultEnd < StartOf(r)
                THEN metrics.kind = "error" /\ metrics.queries = <<>>
                ELSE QueriedWindow(StartOf(r), defaultEnd)

\* Neither date was given, the clock moved between its two readings, and the
\* window queried is 30 days and that second long.
C22_Witness ==
    /\ call.op = "GetMetrics"
    /\ call.request.startDate = NoDate
    /\ call.request.endDate = NoDate
    /\ call.request.clock[1] < call.request.clock[2]
    /\ metrics.kind = "MetricsResponse"
    /\ metrics.EndDate - metrics.StartDate = DefaultDays * Day + 1
    /\ QueriedWindow(metrics.StartDate, metrics.EndDate)

\* Only the start was given, a day after now, and the request was refused.
C22_WitnessOneGiven ==
    /\ call.op = "GetMetrics"
    /\ call.request.startDate # NoDate
    /\ call.request.endDate = NoDate
    /\ ParseDate(call.request.startDate).t > call.request.clock[2]
    /\ metrics.kind = "error"

----------------------------------------------------------------------------
(* The records of a report: checked under SpecBulk *)

Min(a, b) == IF a < b THEN a ELSE b

\* The message ids of the records of a slice.
IdsOf(slice) == {slice[i].MessageID : i \in DOMAIN slice}

\* C23: detailedStatus of a report has min(100, n) records for a cache of n
\* records at the snapshot, 100 for a cache of 150; they are records of the
\* cache, each once; every one of them was sent no earlier than every record
\* left out; and they are in descending order of SentAt.
C23_DetailedStatusRecent ==
    metrics.kind = "DeliveryReport" =>
      LET d == metrics.DetailedStatus
          n == Cardinality(DOMAIN statuses)
      IN  /\ Len(d) = Min(DetailLimit, n)
          /\ n = MaxRecords => Len(d) = DetailLimit
          /\ Cardinality(IdsOf(d)) = Len(d)
          /\ \A i \in DOMAIN d :
                /\ d[i].MessageID \in DOMAIN statuses
                /\ d[i] = statuses[d[i].MessageID]
                /\ \A m \in DOMAIN statuses \ IdsOf(d) : d[i].SentAt >= statuses[m].SentAt
          /\ \A i \in 1..(Len(d) - 1) : d[i].SentAt >= d[i + 1].SentAt

\* A report over a cache of 150 records carries 100 of them, and the last of
\* these was sent in the same second as a record that was left out.
C23_Witness ==
    /\ metrics.kind = "DeliveryReport"
    /\ Cardinality(DOMAIN statuses) = MaxRecords
    /\ Len(metrics.DetailedStatus) = DetailLimit
    /\ \E m \in DOMAIN statuses \ IdsOf(metrics.DetailedStatus) :
          statuses[m].SentAt = metrics.DetailedStatus[DetailLimit].SentAt

----------------------------------------------------------------------------
(* Hourly stats, queries and buckets: checked under SpecMetrics *)

\* The report that was served, its request and the timestamps CloudWatch had
\* datapoints for inside the window of the report.
ReportServed == call.op = "GetRealTimeReport" /\ metrics.kind = "DeliveryReport"
StampsInWindow ==
    {t \in DOMAIN call.request.cw.data["Send"] :
        metrics.StartTime <= t /\ t <= metrics.EndTime}

\* C24 as stated: a report over the last hours hours has at most hours
\* entries in hourlyStats.
C24_AtMostHoursEntries ==
    ReportServed => Len(metrics.HourlyStats) <= metrics.Hours

\* C24 amended: a report has one hourlyStats entry for each hour of day that
\* a datapoint inside [now - hours, now] falls into, which is at most
\* hours + 1 and at most 24 entries.
C24_AtMostHoursPlusOneEntries ==
    ReportServed =>
        /\ Len(metrics.HourlyStats) = Cardinality({HourKey(t) : t \in StampsInWindow})
        /\ Len(metrics.HourlyStats) <= Min(24, metrics.Hours + 1)

\* A report over 12 hours with 13 entries, the datapoints being those of the
\* 13 full hours from now - 12 hours to now.
C24_Witness ==
    /\ ReportServed
    /\ metrics.Hours = 12
    /\ Len(metrics.HourlyStats) = 13
    /\ \A t \in StampsInWindow : \E k \in 0..12 : t = metrics.EndTime - k * Hour

\* The hour of day of an instant, and the sum of the datapoints of a metric
\* inside the window of the report whose timestamps have that hour of day.
HourOfDay(t) == (t % Day) \div Hour
SumAtHour(metricName, hour) ==
    SumOver(call.request.cw.data[metricName],
            {t \in StampsInWindow : HourOfDay(t) = hour})

\* C25: hourlyStats is keyed by the hour of day: the hour of every entry is in
\* 0..23, the hours are strictly ascending through the entries and so
\* pairwise distinct, there are at most 24 entries, and the counts of an
\* entry are the sums of all datapoints of the metric with that hour of day,
\* of whatever calendar day.
C25_KeyedByHourOfDay ==
    ReportServed =>
      LET h == metrics.HourlyStats
      IN  /\ Len(h) <= 24
          /\ \A i \in DOMAIN h : h[i].Hour \in 0..23
          /\ \A i \in 1..(Len(h) - 1) : h[i].Hour < h[i + 1].Hour
          /\ \A i \in DOMAIN h :
                /\ h[i].Sent = SumAtHour("Send", h[i].Hour)
                /\ h[i].Delivered = SumAtHour("Delivery", h[i].Hour)
                /\ h[i].Opened = SumAtHour("Open", h[i].Hour)
                /\ h[i].Clicked = SumAtHour("Click", h[i].Hour)
                /\ h[i].Failed = SumAtHour("Bounce", h[i].Hour)
                                   + SumAtHour("Complaint", h[i].Hour)

\* A report over two days in which the one entry of 11 o'clock counts the
\* message sent at 11:00 today and the one sent at 11:00 yesterday.
C25_Witness ==
    /\ ReportServed
    /\ metrics.Hours = 48
    /\ StampsInWindow = {metrics.EndTime - Hour, metrics.EndTime - 25 * Hour}
    /\ Len(metrics.HourlyStats) = 1
    /\ metrics.HourlyStats[1].Hour = 11
    /\ metrics.HourlyStats[1].Sent = 2

\* A report over two days with more than one entry.
C25_WitnessAscending ==
    /\ ReportServed
    /\ metrics.Hours = 48
    /\ Len(metrics.HourlyStats) = 24
    /\ metrics.HourlyStats[1].Hour = 0
    /\ metrics.HourlyStats[1].Sent = 2
    /\ metrics.HourlyStats[13].Sent = 3

\* The request that was served got as far as its metric queries: the sender
\* was found and the range accepted.
QueriesReached ==
    /\ call.op \in {"GetMetrics", "GetSenderMetrics", "GetRealTimeReport"}
    /\ metrics.kind \in {"error", "MetricsResponse", "SenderMetricsResponse",
                          "DeliveryReport"}
    /\ ~(metrics.kind = "error" /\ metrics.queries = <<>>)

QueriedNames == {metrics.queries[i].MetricName : i \in DOMAIN metrics.queries}

\* C26: a request queries each of the six metric names exactly once when all
\* queries succeed; when one fails no name is queried twice, the failing query
\* is the last one issued and the only failing one, and the request answers
\* with nothing but an error that names the metric and carries the cause: no
\* totals, no report, and the cache is not read.
C26_OneQueryEachNoRetry ==
    QueriesReached =>
      LET cw == call.request.cw
          q == metrics.queries
      IN  /\ Cardinality(QueriedNames) = Len(q)
          /\ (QueriedNames \cap cw.failing = {}) =>
                /\ metrics.kind # "error"
                /\ Len(q) = 6
                /\ QueriedNames = MetricNames
          /\ (cw.failing # {}) =>
                /\ metrics.kind = "error"
                /\ DOMAIN metrics = {"kind", "err", "queries", "CacheRead"}
                /\ ~metrics.CacheRead
                /\ q[Len(q)].MetricName \in cw.failing
                /\ \A i \in 1..(Len(q) - 1) : q[i].MetricName \notin cw.failing
                /\ metrics.err = <<"falha ao obter métrica " \o q[Len(q)].MetricName,
                                    "cloudwatch: transport">>

\* A report request whose second query failed: two queries were issued, the
\* other failing metric was never asked for, and the answer is the error.
C26_Witness ==
    /\ call.op = "GetRealTimeReport"
    /\ call.request.cw.failing = {"Send", "Open"}
    /\ metrics.kind = "error"
    /\ Len(metrics.queries) = 2
    /\ metrics.queries[2].MetricName = "Open"
    /\ "Send" \notin QueriedNames

RECURSIVE SumField(_, _)
\* The sum of a field over a set of records.
SumField(records, field) ==
    IF records = {} THEN 0
    ELSE LET r == CHOOSE x \in records : TRUE
         IN  r[field] + SumField(records \ {r}, field)

HourlyEntries == {metrics.HourlyStats[i] : i \in DOMAIN metrics.HourlyStats}

\* The timestamps CloudWatch had datapoints for inside the range of the
\* per-sender request.
StampsInRange ==
    {t \in DOMAIN call.request.cw.data["Send"] :
        metrics.StartDate <= t /\ t <= metrics.EndDate}

\* C28: in the per-sender metrics each total is the sum of that metric over
\* the daily stats, in the report each total is the sum over the hourly stats
\* (failed being bounces and complaints), and every datapoint inside the
\* window has exactly one bucket, that of its day or of its hour of day.
C28_TotalsAreBucketSums ==
    /\ (call.op = "GetSenderMetrics" /\ metrics.kind = "SenderMetricsResponse") =>
          /\ metrics.TotalSent = SumField(metrics.DailyStats, "Sent")
          /\ metrics.TotalDelivered = SumField(metrics.DailyStats, "Delivered")
          /\ metrics.TotalOpened = SumField(metrics.DailyStats, "Opened")
          /\ metrics.TotalClicked = SumField(metrics.DailyStats, "Clicked")
          /\ metrics.TotalBounced = SumField(metrics.DailyStats, "Bounced")
          /\ metrics.TotalComplaints = SumField(metrics.DailyStats, "Complaints")
          /\ \A t \in StampsInRange :
                Cardinality({d \in metrics.DailyStats : d.Date = t \div Day}) = 1
          /\ \A d \in metrics.DailyStats : \E t \in StampsInRange : d.Date = t \div Day
    /\ ReportServed =>
          /\ metrics.TotalSent = SumField(HourlyEntries, "Sent")
          /\ metrics.TotalDelivered = SumField(HourlyEntries, "Delivered")
          /\ metrics.TotalOpened = SumField(HourlyEntries, "Opened")
          /\ metrics.TotalClicked = SumField(HourlyEntries, "Clicked")
          /\ metrics.TotalFailed = SumField(HourlyEntries, "Failed")
          /\ \A t \in StampsInWindow :
                Cardinality({e \in HourlyEntries : e.Hour = HourOfDay(t)}) = 1
          /\ \A e \in HourlyEntries : \E t \in StampsInWindow : e.Hour = HourOfDay(t)

\* Per-sender metrics over two days with a message sent on each: the total
\* is 2 and each day counts 1.
C28_Witness ==
    /\ call.op = "GetSenderMetrics"
    /\ metrics.kind = "SenderMetricsResponse"
    /\ metrics.TotalSent = 2
    /\ Cardinality(metrics.DailyStats) = 2
    /\ \A d \in metrics.DailyStats : d.Sent = 1

\* A report in which two hours share a total of three failures.
C28_WitnessReport ==
    /\ ReportServed
    /\ metrics.TotalFailed = 3
    /\ Len(metrics.HourlyStats) = 2
    /\ metrics.HourlyStats[1].Failed = 1
    /\ metrics.HourlyStats[2].Failed = 2

----------------------------------------------------------------------------
(* Release of the lock: checked under SpecLockFair *)

\* Whoever the mutex counts as writer, as announced writer or as reader is a
\* goroutine inside a method, between its Lock or RLock and its Unlock or
\* RUnlock.
LockHeldByRunning ==
    /\ rw.writer # "none" =>
          procs[rw.writer].pc \in {"read", "write", "unlock"}
          /\ LockKind(procs[rw.writer].op) = "Lock"
    /\ rw.pending # "none" => procs[rw.pending].pc = "lockwait"
    /\ \A g \in rw.readers :
          procs[g].pc \in {"read", "runlock"} /\ LockKind(procs[g].op) = "RLock"
    /\ \A g \in Procs :
          procs[g].pc \in {"read", "write", "unlock", "runlock"} =>
              rw.writer = g \/ g \in rw.readers

\* C30: the lock is never held by a call that has returned, and under fair
\* scheduling every call of TrackDelivery, UpdateDeliveryStatus,
\* GetDeliveryStatus and GetAllDeliveryStatus that has started returns.
C30_CallsReturnLockReleased ==
    /\ []LockHeldByRunning
    /\ \A g \in Procs : (procs[g].pc # "idle") ~> (procs[g].pc = "idle")

\* An UpdateDeliveryStatus that found no record is about to return through
\* its deferred Unlock while another call waits for the lock.
C30_Witness ==
    \E g, o \in Procs :
        /\ procs[g].op = "UpdateDeliveryStatus"
        /\ procs[g].pc = "unlock"
        /\ procs[g].err = "mensagem não encontrada"
        /\ rw.writer = g
        /\ procs[o].pc \in {"lock", "rlock"}

----------------------------------------------------------------------------
(* Requests and the lock: checked under SpecRequests *)

\* The goroutine has a call to SES or to CloudWatch in flight.
CallInFlight(g) == procs[g].pc \in {"identity", "template", "send", "cancel", "metric"}

HoldsLock(g) == rw.writer = g \/ g \in rw.readers

\* C27: a request that has a send, cancel, identity, template or metric call
\* in flight holds neither the read nor the write lock and waits for
\* neither; and a request inside the cache for its TrackDelivery,
\* UpdateDeliveryStatus or snapshot has no such call in flight.
C27_NoLockAcrossCalls ==
    \A g \in Procs :
        /\ CallInFlight(g) => ~HoldsLock(g) /\ rw.pending # g
        /\ HoldsLock(g) =>
              procs[g].op \in {"TrackDelivery", "UpdateDeliveryStatus",
                               "GetAllDeliveryStatus"}

\* The metric queries of a report are in flight while a cancel request is in
\* UpdateDeliveryStatus under the write lock and a send request waits in
\* TrackDelivery for the lock.
C27_Witness ==
    \E g, o, r \in Procs :
        /\ procs[g].pc = "metric"
        /\ procs[o].op = "UpdateDeliveryStatus" /\ rw.writer = o
        /\ procs[r].op = "TrackDelivery" /\ procs[r].pc = "lock"

\* C29, its first part: when SES has accepted the cancellation of the
\* message and no request is being served any more, the record of the
\* message has the status CANCELLED.
C29_CancelledAfterBoth ==
    (call.op = "CancelScheduledSending" /\ \A g \in Procs : procs[g] = Idle) =>
        /\ "m1" \in DOMAIN statuses
        /\ statuses["m1"].Status = "CANCELLED"

====
